---- MODULE Spec2Model ----
(***************************************************************************)
(* The subscription store of rssbot (src/src/data.rs): DatabaseInner with  *)
(* its two maps, the update differ and the JSON snapshot file.             *)
(*                                                                         *)
(* Strings are TLA+ strings.  Option<T> is a sequence of length 0 (None)   *)
(* or 1 (Some).  get_hash (DefaultHasher, u64) is modelled as an injective *)
(* wrapper [h |-> t]: two strings hash alike only when they are equal.     *)
(***************************************************************************)
EXTENDS Naturals, Integers, Sequences, FiniteSets, Bags, TLC

VARIABLES
    feeds,        \* DatabaseInner.feeds: FeedID -> Feed
    subscribers,  \* DatabaseInner.subscribers: SubscriberID -> set of FeedID
    disk,         \* the content of the file at DatabaseInner.path
    workers,      \* the fetch_feed_updates futures spawned and not yet finished
    sent,         \* the messages the last handler handed to the bot
    ticks,        \* the ticks of the feed loop's Interval so far
    split,        \* a call of the large-message splitter: its input and its output
    scan,         \* the gardener: the subscribers prune has still to look at
    xml,          \* a call of feed::parse: the events of the reader and what parse returned
    http,         \* a call of pull_feed: the response of the server and what pull_feed returned
    fmt,         \* a call of format_byte_size: the number and the text returned
    cmd,         \* the options of the bot and the command that it handles
    delivery,    \* the sends of one update to the subscribers of its feed
    fix,         \* a call of fix_relative_url: the feed, the request URL and the feed returned
    handlers,    \* the sub handlers that run at once, each with its place in sub and its replies
    last          \* history: the last call, its arguments and what it returned

vars == <<feeds, subscribers, disk, workers, sent, ticks, split, scan, xml, http, fmt, cmd, delivery, fix, handlers, last>>
\* what the calls of the store leave alone
tasks == <<workers, sent, ticks, split, scan, xml, http, fmt, cmd, delivery, fix, handlers>>

----------------------------------------------------------------------------
(* Bounds of the model *)

\* subscriber ids are 1..NumSubscribers
NumSubscribers == 2
\* longest item list of a fetched feed in Spec
MaxItems == 1
\* longest item list of a fetched feed in SpecDiffer
MaxPollLen == 2
\* inc_error_count is not called beyond this count
MaxErr == 1

Subscribers == 1..NumSubscribers
Links == {"a", "b"}
\* the links whose fetch results reach the store in Spec
PolledLinks == {"a"}
Titles == {"T", "U"}

None == <<>>
Some(x) == <<x>>

----------------------------------------------------------------------------
(* Maps *)

EmptyMap == [k \in {} |-> {}]
MapPut(m, k, v) == [x \in DOMAIN m \cup {k} |-> IF x = k THEN v ELSE m[x]]
MapRemove(m, k) == [x \in DOMAIN m \ {k} |-> m[x]]

RECURSIVE MapSeq(_, _)
MapSeq(F(_), s) == IF s = <<>> THEN <<>> ELSE <<F(Head(s))>> \o MapSeq(F, Tail(s))

RECURSIVE Take(_, _)
Take(s, n) == IF n = 0 \/ s = <<>> THEN <<>> ELSE <<Head(s)>> \o Take(Tail(s), n - 1)

Contains(s, x) == \E i \in 1..Len(s) : s[i] = x
Range(s) == {s[i] : i \in 1..Len(s)}

RECURSIVE SeqsUpTo(_, _)
SeqsUpTo(S, n) ==
    IF n = 0 THEN {<<>>}
    ELSE LET shorter == SeqsUpTo(S, n - 1)
         IN  shorter \cup {<<x>> \o s : x \in S, s \in {t \in shorter : Len(t) = n - 1}}

----------------------------------------------------------------------------
(* Hashing *)

get_hash(t) == [h |-> t]

unwrap_or_default(opt) == IF opt = None THEN "" ELSE opt[1]

gen_item_hash(item) ==
    IF item.id # None
    THEN get_hash(item.id[1])
    ELSE get_hash(unwrap_or_default(item.title) \o unwrap_or_default(item.link))

----------------------------------------------------------------------------
(* The snapshot file.  No operation of the store reads the file back (only  *)
(* Database::open does, at the next start), so the state machine below     *)
(* keeps what each call returns and not the file; each operation still     *)
(* reports in "file" what it left in the file: None when it did not touch  *)
(* it, else the new content.                                               *)

\* serde_json::to_writer of the feed list: the array of all feeds, whose order
\* is the map's iteration order and is not kept here
Serialize(fs) == [kind |-> "json", feeds |-> {fs[id] : id \in DOMAIN fs}]
\* the file after File::create truncated it and the write then failed
Truncated == [kind |-> "truncated", feeds |-> {}]
\* the file with the first bytes of the array only: to_writer writes straight
\* into the File, piece by piece
Partial == [kind |-> "partial", feeds |-> {}]

\* io: whether File::create and the write succeed
SaveOutcomes == {"ok", "create_fails", "write_fails"}
\* io: where in save the process is killed
CrashPoints == {"crash_before_create", "crash_after_create", "crash_in_write",
                "crash_after_write"}

save(db, io) ==
    CASE io = "ok"                  -> [ret |-> "Ok", file |-> Some(Serialize(db.feeds))]
      [] io = "create_fails"        -> [ret |-> "DatabaseSave", file |-> None]
      [] io = "crash_before_create" -> [ret |-> "Crash", file |-> None]
      [] io = "crash_after_create"  -> [ret |-> "Crash", file |-> Some(Truncated)]
      [] io = "crash_in_write"      -> [ret |-> "Crash", file |-> Some(Partial)]
      [] io = "crash_after_write"   -> [ret |-> "Crash", file |-> Some(Serialize(db.feeds))]
      [] OTHER                      -> [ret |-> "DatabaseSave", file |-> Some(Truncated)]

\* the file after a call that left "file" in it
\* the value of disk in the specifications that do not follow the file, which
\* the process reads in Database::open only
NotFollowed == [kind |-> "not followed", feeds |-> {}]
\* the file after a call that left "file" in it
Written(file, old) == IF file = None \/ old = NotFollowed THEN old ELSE file[1]

----------------------------------------------------------------------------
(* DatabaseInner: each operation maps the store to the store after the    *)
(* call, what the call left in the file and the value returned.            *)

DBOf(f, s) == [feeds |-> f, subscribers |-> s]

get_all_feeds(db) == {db.feeds[id] : id \in DOMAIN db.feeds}

get_all_subscribers(db) == DOMAIN db.subscribers

\* the feed ids of the subscriber whose feed is missing make the index panic
get_subscribed_feeds_panics(db, subscriber) ==
    /\ subscriber \in DOMAIN db.subscribers
    /\ \E id \in db.subscribers[subscriber] : id \notin DOMAIN db.feeds

get_subscribed_feeds(db, subscriber) ==
    IF subscriber \in DOMAIN db.subscribers
    THEN Some({db.feeds[id] : id \in db.subscribers[subscriber] \cap DOMAIN db.feeds})
    ELSE None

is_subscribed(db, subscriber, rss_link) ==
    /\ subscriber \in DOMAIN db.subscribers
    /\ get_hash(rss_link) \in db.subscribers[subscriber]

inc_error_count(db, rss_link) ==
    LET feed_id == get_hash(rss_link)
    IN  IF feed_id \in DOMAIN db.feeds
        THEN [db  |-> [db EXCEPT !.feeds[feed_id].error_count = @ + 1],
              ret |-> db.feeds[feed_id].error_count + 1]
        ELSE [db |-> db, ret |-> 0]

reset_error_count(db, rss_link) ==
    LET feed_id == get_hash(rss_link)
    IN  IF feed_id \in DOMAIN db.feeds
        THEN [db EXCEPT !.feeds[feed_id].error_count = 0]
        ELSE db

\* lines 98-103: entry(subscriber).or_insert_with(HashSet::new), then insert
insert_subscription(subs, subscriber, feed_id) ==
    LET subs1 == IF subscriber \in DOMAIN subs THEN subs ELSE MapPut(subs, subscriber, {})
    IN  [subscribers |-> [subs1 EXCEPT ![subscriber] = @ \cup {feed_id}],
         inserted    |-> feed_id \notin subs1[subscriber]]

\* new_feed with an empty hash_list
new_feed_without_hashes(rss_link, rss) ==
    [link        |-> rss_link,
     title       |-> rss.title,
     error_count |-> 0,
     hash_list   |-> <<>>,
     subscribers |-> {}]

\* lines 106-112: the feed a first subscription creates
new_feed(rss_link, rss) ==
    [link        |-> rss_link,
     title       |-> rss.title,
     error_count |-> 0,
     hash_list   |-> MapSeq(gen_item_hash, rss.items),
     subscribers |-> {}]

\* a subscribe that does not look whether the subscriber has the feed
subscribe_again(db, subscriber, rss_link, rss, io) ==
    LET feed_id == get_hash(rss_link)
        ins == insert_subscription(db.subscribers, subscriber, feed_id)
        feeds1 == IF feed_id \in DOMAIN db.feeds
                  THEN db.feeds
                  ELSE MapPut(db.feeds, feed_id, new_feed(rss_link, rss))
        feeds2 == [feeds1 EXCEPT ![feed_id].subscribers = @ \cup {subscriber}]
        db2 == DBOf(feeds2, ins.subscribers)
        sv == save(db2, io)
    IN  [db |-> db2, file |-> sv.file, ret |-> sv.ret, saves |-> 1]

subscribe(db, subscriber, rss_link, rss, io) ==
    LET feed_id == get_hash(rss_link)
        ins == insert_subscription(db.subscribers, subscriber, feed_id)
    IN  IF ~ins.inserted
        THEN [db |-> [db EXCEPT !.subscribers = ins.subscribers], file |-> None,
              ret |-> "AlreadySubscribed", saves |-> 0]
        ELSE LET \* entry(feed_id).or_insert_with(|| Feed {..})
                 feeds1 == IF feed_id \in DOMAIN db.feeds
                           THEN db.feeds
                           ELSE MapPut(db.feeds, feed_id, new_feed(rss_link, rss))
                 feeds2 == [feeds1 EXCEPT ![feed_id].subscribers = @ \cup {subscriber}]
                 db2 == DBOf(feeds2, ins.subscribers)
                 sv == save(db2, io)
             IN  [db |-> db2, file |-> sv.file, ret |-> sv.ret, saves |-> 1]

\* lines 121-133: the subscriber's entry without the feed, dropped when empty
remove_subscription(subs, subscriber, feed_id) ==
    LET subscribed_feeds == subs[subscriber] \ {feed_id}
        clear_subscriber == subscribed_feeds = {}
    IN  IF clear_subscriber
        THEN MapRemove(subs, subscriber)
        ELSE [subs EXCEPT ![subscriber] = subscribed_feeds]

\* remove_feed_subscriber that never drops the feed
remove_feed_subscriber_keeps_feed(fs, feed_id, subscriber) ==
    LET result == [fs[feed_id] EXCEPT !.subscribers = @ \ {subscriber}]
    IN  [feeds |-> [fs EXCEPT ![feed_id] = result], result |-> result]

\* lines 135-149: the feed without the subscriber, dropped when it has none left
remove_feed_subscriber(fs, feed_id, subscriber) ==
    LET result == [fs[feed_id] EXCEPT !.subscribers = @ \ {subscriber}]
        clear_feed == result.subscribers = {}
    IN  [feeds  |-> IF clear_feed THEN MapRemove(fs, feed_id)
                                  ELSE [fs EXCEPT ![feed_id] = result],
         result |-> result]

unsubscribe(db, subscriber, rss_link, io) ==
    LET feed_id == get_hash(rss_link)
        NotSubscribed(d) == [db |-> d, file |-> None, ret |-> "NotSubscribed", feed |-> None,
                             saves |-> 0]
    IN  IF ~(subscriber \in DOMAIN db.subscribers /\ feed_id \in db.subscribers[subscriber])
        THEN NotSubscribed(db)
        ELSE LET db1 == [db EXCEPT !.subscribers =
                                      remove_subscription(db.subscribers, subscriber, feed_id)]
             IN  IF ~(feed_id \in DOMAIN db.feeds
                      /\ subscriber \in db.feeds[feed_id].subscribers)
                 THEN NotSubscribed(db1)
                 ELSE LET rm == remove_feed_subscriber(db.feeds, feed_id, subscriber)
                          db2 == DBOf(rm.feeds, db1.subscribers)
                          sv == save(db2, io)
                      IN  IF sv.ret # "Ok"
                          THEN [db |-> db2, file |-> sv.file, ret |-> sv.ret, feed |-> None,
                                saves |-> 1]
                          ELSE [db |-> db2, file |-> sv.file, ret |-> "Ok",
                                feed |-> Some(rm.result), saves |-> 1]

\* the loop of delete_subscriber: one unsubscribe per feed, its result dropped
RECURSIVE unsubscribe_each(_, _, _, _, _)
unsubscribe_each(db, file, subscriber, links, ios) ==
    IF links = <<>>
    THEN [db |-> db, file |-> file, ret |-> "Ok"]
    ELSE LET r == unsubscribe(db, subscriber, Head(links), Head(ios))
             file1 == IF r.file = None THEN file ELSE r.file
         IN  IF r.ret = "Crash"
             THEN [db |-> r.db, file |-> file1, ret |-> "Crash"]
             ELSE unsubscribe_each(r.db, file1, subscriber, Tail(links), Tail(ios))

\* links: the subscriber's feeds in the order the loop visits them; ios: the
\* outcome of the save of each unsubscribe
delete_subscriber(db, subscriber, links, ios) ==
    IF get_subscribed_feeds_panics(db, subscriber)
    THEN [db |-> db, file |-> None, ret |-> "Panic"]
    ELSE IF get_subscribed_feeds(db, subscriber) = None
    THEN [db |-> db, file |-> None, ret |-> "Ok"]
    ELSE LET r == unsubscribe_each(db, None, subscriber, links, ios)
         IN  [db |-> r.db, file |-> r.file, ret |-> r.ret]

update_subscriber(db, from, to) ==
    IF from \notin DOMAIN db.subscribers
    THEN [db |-> db, ret |-> "Panic"]   \* remove(&from).unwrap()
    ELSE LET fs == db.subscribers[from]
             subs1 == MapRemove(db.subscribers, from)
         IN  IF \E feed_id \in fs : feed_id \notin DOMAIN db.feeds
             THEN \* get_mut(&feed_id).unwrap()
                  [db |-> [db EXCEPT !.subscribers = subs1], ret |-> "Panic"]
             ELSE [db |-> DBOf([id \in DOMAIN db.feeds |->
                                   IF id \in fs
                                   THEN [db.feeds[id] EXCEPT
                                            !.subscribers = (@ \ {from}) \cup {to}]
                                   ELSE db.feeds[id]],
                               MapPut(subs1, to, fs)),
                   ret |-> "Ok"]

\* new_items that also skips an item whose hash an earlier item of the poll has
RECURSIVE new_items_once(_, _)
new_items_once(hash_list, items) ==
    IF items = <<>>
    THEN <<>>
    ELSE LET item == Head(items)
             hash == gen_item_hash(item)
         IN  IF Contains(hash_list, hash)
             THEN new_items_once(hash_list, Tail(items))
             ELSE <<item>> \o new_items_once(<<hash>> \o hash_list, Tail(items))

\* lines 185-191: the items whose hash the feed's hash_list does not hold
new_items(hash_list, items) ==
    LET IsNew(item) == ~Contains(hash_list, gen_item_hash(item))
    IN  SelectSeq(items, IsNew)

\* new_window that puts the new hashes behind the old ones
new_window_old_first(hash_list, new_hash_list, items_len) ==
    Take(hash_list \o new_hash_list, items_len * 2)

\* new_window that keeps every old hash
new_window_untruncated(hash_list, new_hash_list, items_len) ==
    new_hash_list \o hash_list

\* lines 194-202: the new hashes, then the old ones up to max_size in all
new_window(hash_list, new_hash_list, items_len) ==
    LET max_size == items_len * 2
        append == Take(hash_list, max_size - Len(new_hash_list))
    IN  new_hash_list \o append

\* an update that resets the error count only when the poll has a new item
update_resets_on_new_items(db, rss_link, items, io) ==
    LET feed_id == get_hash(rss_link)
    IN  IF feed_id \notin DOMAIN db.feeds
        THEN [db |-> db, file |-> None, result |-> <<>>, saves |-> 0, ret |-> "Ok"]
        ELSE LET hash_list == db.feeds[feed_id].hash_list
                 result == new_items(hash_list, items)
                 new_hash_list == MapSeq(gen_item_hash, result)
             IN  IF result # <<>>
                 THEN LET db2 == [reset_error_count(db, rss_link) EXCEPT
                                     !.feeds[feed_id].hash_list =
                                         new_window(hash_list, new_hash_list, Len(items))]
                          sv == save(db2, io)
                      IN  [db |-> db2, file |-> sv.file, result |-> result, saves |-> 1,
                           ret |-> IF sv.ret = "Crash" THEN "Crash" ELSE "Ok"]
                 ELSE [db |-> db, file |-> None, result |-> result, saves |-> 0,
                       ret |-> "Ok"]

\* an update that looks no feed up and returns the whole poll
update_returns_the_poll(db, rss_link, items, io) ==
    [db |-> db, file |-> None, result |-> items, saves |-> 0, ret |-> "Ok"]

update(db, rss_link, items, io) ==
    LET feed_id == get_hash(rss_link)
    IN  IF feed_id \notin DOMAIN db.feeds
        THEN [db |-> db, file |-> None, result |-> <<>>, saves |-> 0, ret |-> "Ok"]
        ELSE LET db1 == reset_error_count(db, rss_link)
                 hash_list == db1.feeds[feed_id].hash_list
                 result == new_items(hash_list, items)
                 new_hash_list == MapSeq(gen_item_hash, result)
             IN  IF result # <<>>
                 THEN LET db2 == [db1 EXCEPT !.feeds[feed_id].hash_list =
                                         new_window(hash_list, new_hash_list, Len(items))]
                          sv == save(db2, io)   \* .unwrap_or_default()
                      IN  [db |-> db2, file |-> sv.file, result |-> result, saves |-> 1,
                           ret |-> IF sv.ret = "Crash" THEN "Crash" ELSE "Ok"]
                 ELSE [db |-> db1, file |-> None, result |-> result, saves |-> 0,
                       ret |-> "Ok"]

update_title(db, rss_link, new_title) ==
    LET feed_id == get_hash(rss_link)
    IN  IF feed_id \in DOMAIN db.feeds
        THEN [db EXCEPT !.feeds[feed_id].title = new_title]
        ELSE db

\* Database::create: empty maps, then save()
create_db == DBOf(EmptyMap, EmptyMap)

\* lines 271-283 of Database::open: both maps rebuilt from the feed list, the
\* index from the subscribers of each feed.  The list is kept as a set here:
\* where two of its feeds share a link, the later of the two is kept.
open_maps(feeds_list) ==
    LET ids == {get_hash(feed.link) : feed \in feeds_list}
        feed_of(id) == CHOOSE feed \in feeds_list : get_hash(feed.link) = id
        all_subscribers == UNION {feed.subscribers : feed \in feeds_list}
    IN  DBOf([id \in ids |-> feed_of(id)],
             [subscriber \in all_subscribers |->
                 {get_hash(feed.link) : feed \in {f \in feeds_list : subscriber \in f.subscribers}}])

\* Database::open on an existing file: the store, or the error of from_reader
open(file) ==
    IF file.kind = "json"
    THEN [ret |-> "Ok", db |-> open_maps(file.feeds)]
    ELSE [ret |-> "DatabaseFormat", db |-> create_db]

----------------------------------------------------------------------------
(* Inputs *)

Item(title, link, id) == [title |-> title, link |-> link, id |-> id]

\* the items of the feeds fetched in Spec
SpecItems == {Item(Some("x"), None, Some("x"))}

\* the items of the feeds fetched in SpecDiffer: three with a guid, one without a
\* guid, and one without a guid whose title and link concatenate to a guid above
DifferItems ==
    {Item(None, None, Some("1")), Item(None, None, Some("2")),
     Item(None, None, Some("3")), Item(Some("4"), None, None),
     Item(Some("1"), Some(""), None)}

\* feed::RSS as the store reads it: the title and the items
RSSOver(titles, items, n) == [title : titles, items : SeqsUpTo(items, n)]

\* every order in which a loop may visit the elements of a set
Orders(S) == {s \in SeqsUpTo(S, Cardinality(S)) : Len(s) = Cardinality(S) /\ Range(s) = S}

LinksOf(db, subscriber) ==
    IF get_subscribed_feeds(db, subscriber) = None
    THEN {}
    ELSE {f.link : f \in get_subscribed_feeds(db, subscriber)[1]}

----------------------------------------------------------------------------
(* The state machine: one action per public operation of Database *)

DB == DBOf(feeds, subscribers)

Call(op) ==
    [op |-> op, subscriber |-> 0, to |-> 0, link |-> "", title |-> "", items |-> <<>>,
     ios |-> <<>>, ret |-> "Ok", feed |-> None, result |-> <<>>, count |-> 0,
     created |-> FALSE, error |-> None, snapshot |-> {}, kind |-> "", status |-> ""]

\* no call of the splitter yet
NoSplit == [head |-> <<>>, data |-> <<>>, msgs |-> None]

\* no call of parse yet
NoXml == [wrapper |-> "", children |-> <<>>, events |-> <<>>, cut |-> FALSE, out |-> None]

\* no call of pull_feed yet
NoRequest == [url |-> <<>>, size_limit |-> 0, resp |-> None, out |-> None]

\* no call of format_byte_size yet
NoFormat == [bytes |-> <<>>, out |-> None]

\* the bot open to everybody, no command received yet
NoCommand ==
    [opt |-> [admin |-> {}, restricted |-> FALSE], stage |-> "idle", name |-> "",
     chat |-> [id |-> 0, kind |-> ""], from |-> None, args |-> <<>>, channel |-> None,
     replies |-> <<>>, reads |-> {}, target |-> None, ret |-> ""]

\* no update to deliver yet
NoDelivery ==
    [link |-> "", msgs |-> 0, subscribers |-> {}, state |-> <<>>, started |-> <<>>,
     acked |-> <<>>, failed |-> <<>>, joined |-> ""]

\* no call of fix_relative_url yet
NoFix == [rss |-> None, rss_link |-> <<>>, out |-> None]

\* no sub command received yet
NoHandler ==
    [stage |-> "idle", target |-> 0, url |-> "", replies |-> <<>>, pulled |-> FALSE,
     created |-> FALSE, raced |-> FALSE, ret |-> ""]
NoHandlers == <<NoHandler, NoHandler>>

\* a panic aborts the process, a crash kills it: nothing runs after either
Running == last.ret \notin {"Panic", "Crash", "DatabaseFormat", "NotStarted"}

Init ==
    /\ feeds = create_db.feeds
    /\ subscribers = create_db.subscribers
    /\ last = Call("create")
    /\ disk = NotFollowed
    /\ workers = EmptyBag
    /\ sent = EmptyBag
    /\ ticks = 0
    /\ handlers = NoHandlers
    /\ fix = NoFix
    /\ delivery = NoDelivery
    /\ cmd = NoCommand
    /\ fmt = NoFormat
    /\ http = NoRequest
    /\ xml = NoXml
    /\ split = NoSplit
    /\ scan = None

Subscribe(subscriber, rss_link, rss, io) ==
    /\ Running
    /\ LET r == subscribe(DB, subscriber, rss_link, rss, io)
       IN  /\ feeds' = r.db.feeds
           /\ subscribers' = r.db.subscribers
           /\ disk' = Written(r.file, disk)
           /\ UNCHANGED tasks
           /\ last' = [Call("subscribe") EXCEPT
                          !.subscriber = subscriber, !.link = rss_link,
                          !.title = rss.title, !.items = rss.items,
                          !.ios = Take(<<io>>, r.saves), !.ret = r.ret,
                          !.created = get_hash(rss_link) \notin DOMAIN feeds
                                      /\ get_hash(rss_link) \in DOMAIN r.db.feeds]

Unsubscribe(subscriber, rss_link, io) ==
    /\ Running
    /\ LET r == unsubscribe(DB, subscriber, rss_link, io)
       IN  /\ feeds' = r.db.feeds
           /\ subscribers' = r.db.subscribers
           /\ disk' = Written(r.file, disk)
           /\ UNCHANGED tasks
           /\ last' = [Call("unsubscribe") EXCEPT
                          !.subscriber = subscriber, !.link = rss_link,
                          !.ios = Take(<<io>>, r.saves), !.ret = r.ret, !.feed = r.feed]

DeleteSubscriber(subscriber) ==
    /\ Running
    /\ \E links \in Orders(LinksOf(DB, subscriber)) :
       \E ios \in [1..Len(links) -> SaveOutcomes] :
          LET r == delete_subscriber(DB, subscriber, links, ios)
          IN  /\ feeds' = r.db.feeds
              /\ subscribers' = r.db.subscribers
              /\ disk' = Written(r.file, disk)
              /\ UNCHANGED tasks
              /\ last' = [Call("delete_subscriber") EXCEPT
                             !.subscriber = subscriber, !.ios = ios, !.ret = r.ret]

UpdateSubscriber(from, to) ==
    /\ Running
    /\ LET r == update_subscriber(DB, from, to)
       IN  /\ feeds' = r.db.feeds
           /\ subscribers' = r.db.subscribers
           /\ disk' = disk
           /\ UNCHANGED tasks
           /\ last' = [Call("update_subscriber") EXCEPT
                          !.subscriber = from, !.to = to, !.ret = r.ret]

Update(rss_link, items, io) ==
    /\ Running
    /\ LET r == update(DB, rss_link, items, io)
       IN  /\ feeds' = r.db.feeds
           /\ subscribers' = r.db.subscribers
           /\ disk' = Written(r.file, disk)
           /\ UNCHANGED tasks
           /\ last' = [Call("update") EXCEPT
                          !.link = rss_link, !.items = items,
                          !.ios = Take(<<io>>, r.saves),
                          !.result = r.result, !.ret = r.ret]

UpdateTitle(rss_link, new_title) ==
    /\ Running
    /\ LET db == update_title(DB, rss_link, new_title)
       IN  /\ feeds' = db.feeds
           /\ subscribers' = db.subscribers
           /\ disk' = disk
           /\ UNCHANGED tasks
           /\ last' = [Call("update_title") EXCEPT !.link = rss_link, !.title = new_title]

IncErrorCount(rss_link) ==
    /\ Running
    /\ get_hash(rss_link) \in DOMAIN feeds => feeds[get_hash(rss_link)].error_count < MaxErr
    /\ LET r == inc_error_count(DB, rss_link)
       IN  /\ feeds' = r.db.feeds
           /\ subscribers' = r.db.subscribers
           /\ disk' = disk
           /\ UNCHANGED tasks
           /\ last' = [Call("inc_error_count") EXCEPT !.link = rss_link, !.count = r.ret]

ResetErrorCount(rss_link) ==
    /\ Running
    /\ LET db == reset_error_count(DB, rss_link)
       IN  /\ feeds' = db.feeds
           /\ subscribers' = db.subscribers
           /\ disk' = disk
           /\ UNCHANGED tasks
           /\ last' = [Call("reset_error_count") EXCEPT !.link = rss_link]

Next ==
    \/ \E s \in Subscribers, l \in Links, rss \in RSSOver({"T"}, SpecItems, MaxItems),
          io \in SaveOutcomes : Subscribe(s, l, rss, io)
    \/ \E s \in Subscribers, l \in Links, io \in SaveOutcomes : Unsubscribe(s, l, io)
    \/ \E s \in Subscribers : DeleteSubscriber(s)
    \/ \E from \in Subscribers, to \in Subscribers : UpdateSubscriber(from, to)
    \/ \E l \in PolledLinks, items \in SeqsUpTo(SpecItems, MaxItems), io \in SaveOutcomes :
          Update(l, items, io)
    \/ \E l \in PolledLinks, t \in Titles : UpdateTitle(l, t)
    \/ \E l \in PolledLinks : IncErrorCount(l)
    \/ \E l \in PolledLinks : ResetErrorCount(l)

Spec == Init /\ [][Next]_vars

\* the differ alone: one feed, one subscriber, long polls
NextDiffer ==
    \/ \E rss \in RSSOver({"T"}, DifferItems, MaxPollLen) : Subscribe(1, "a", rss, "ok")
    \/ Unsubscribe(1, "a", "ok")
    \/ \E items \in SeqsUpTo(DifferItems, MaxPollLen) : Update("a", items, "ok")

SpecDiffer == Init /\ [][NextDiffer]_vars

\* the process started again on the file it left: Database::open
Open ==
    /\ disk # NotFollowed
    /\ LET r == open(disk)
       IN  /\ feeds' = r.db.feeds
           /\ subscribers' = r.db.subscribers
           /\ disk' = disk
           /\ UNCHANGED tasks
           /\ last' = [Call("open") EXCEPT !.ret = r.ret]

\* Database::create has written the empty array
InitDisk ==
    /\ feeds = create_db.feeds
    /\ subscribers = create_db.subscribers
    /\ last = Call("create")
    /\ disk = Serialize(create_db.feeds)
    /\ workers = EmptyBag
    /\ sent = EmptyBag
    /\ ticks = 0
    /\ handlers = NoHandlers
    /\ fix = NoFix
    /\ delivery = NoDelivery
    /\ cmd = NoCommand
    /\ fmt = NoFormat
    /\ http = NoRequest
    /\ xml = NoXml
    /\ split = NoSplit
    /\ scan = None

\* the store and its file: saves that fail, a process killed in save, restarts
NextDisk ==
    \/ \E s \in Subscribers, l \in Links, rss \in RSSOver({"T"}, {}, 0),
          io \in SaveOutcomes \cup CrashPoints : Subscribe(s, l, rss, io)
    \/ \E s \in Subscribers, l \in Links, io \in SaveOutcomes \cup CrashPoints :
          Unsubscribe(s, l, io)
    \/ \E from \in Subscribers, to \in Subscribers : UpdateSubscriber(from, to)
    \/ \E l \in PolledLinks : UpdateTitle(l, "U")
    \/ Open

SpecDisk == InitDisk /\ [][NextDisk]_vars

\* the database files the process may be started on: an array of feeds of
\* different links, each with any set of subscribers, the empty one included
FeedsOnFile ==
    [link : Links, title : {"T"}, error_count : {0}, subscribers : SUBSET Subscribers,
     hash_list : {<<>>}]
Files ==
    {Serialize([id \in {get_hash(feed.link) : feed \in fl} |->
                   CHOOSE feed \in fl : get_hash(feed.link) = id]) :
        fl \in {x \in SUBSET FeedsOnFile :
                   \A f \in x, g \in x : f.link = g.link => f = g}}

\* the process not yet started, on a file that exists
InitFile ==
    /\ disk \in Files
    /\ workers = EmptyBag
    /\ sent = EmptyBag
    /\ ticks = 0
    /\ handlers = NoHandlers
    /\ fix = NoFix
    /\ delivery = NoDelivery
    /\ cmd = NoCommand
    /\ fmt = NoFormat
    /\ http = NoRequest
    /\ xml = NoXml
    /\ split = NoSplit
    /\ scan = None
    /\ feeds = create_db.feeds
    /\ subscribers = create_db.subscribers
    /\ last = [Call("main") EXCEPT !.ret = "NotStarted"]

\* the process started on a file, then serving subscriptions
NextFile ==
    \/ Open
    \/ \E s \in Subscribers, l \in Links, rss \in RSSOver({"T"}, {}, 0) :
          Subscribe(s, l, rss, "ok")
    \/ \E s \in Subscribers, l \in Links : Unsubscribe(s, l, "ok")

SpecFile == InitFile /\ [][NextFile]_vars

----------------------------------------------------------------------------
(* Properties of the subscription store *)

FeedIdOf(rss_link) == get_hash(rss_link)
HasFeed(rss_link) == FeedIdOf(rss_link) \in DOMAIN feeds
Fingerprints(items) == {gen_item_hash(items[i]) : i \in 1..Len(items)}

\* C1 (I2, dual-index consistency): after any sequence of store calls, for
\* every subscriber s and every feed f of the store, s is in f.subscribers
\* exactly when is_subscribed(s, f.link).
C1_DualIndexConsistent ==
    \A s \in Subscribers : \A id \in DOMAIN feeds :
        s \in feeds[id].subscribers <=> is_subscribed(DB, s, feeds[id].link)

\* C2 (I1, feed liveness): every feed of the store has at least one
\* subscriber, and an unsubscribe or delete_subscriber of s that takes s out
\* of a feed whose only subscriber s was removes that feed in the same call.
C2_FeedLiveness ==
    [][ /\ \A id \in DOMAIN feeds' : feeds'[id].subscribers # {}
        /\ last'.op \in {"unsubscribe", "delete_subscriber"} =>
              \A id \in DOMAIN feeds :
                 (/\ last'.op = "unsubscribe" => id = FeedIdOf(last'.link)
                  /\ feeds[id].subscribers = {last'.subscriber}
                  /\ is_subscribed(DB, last'.subscriber, feeds[id].link))
                 => id \notin DOMAIN feeds'
      ]_vars

\* an unsubscribe took the last subscriber of a feed and the feed is gone,
\* while another feed is still there
C2_Witness ==
    /\ last.op = "unsubscribe"
    /\ last.ret = "Ok"
    /\ last.feed[1].subscribers = {}
    /\ ~HasFeed(last.link)
    /\ DOMAIN feeds # {}

DBNext == DBOf(feeds', subscribers')

\* the indexes of the items of a poll whose fingerprint a hash list lacks
NewIndexes(hash_list, items) ==
    {i \in 1..Len(items) : gen_item_hash(items[i]) \notin Range(hash_list)}

\* C3 (no duplicate delivery across consecutive polls): of two updates of a
\* feed that follow one another, the second returns at most as many items as
\* it has distinct fingerprints that the first poll lacked, and returns no
\* item whose fingerprint was in the first poll.
C3_NoDuplicateDelivery ==
    [][ (/\ last.op = "update" /\ last'.op = "update"
         /\ last'.link = last.link
         /\ HasFeed(last.link))
        => /\ Len(last'.result) <=
                 Cardinality(Fingerprints(last'.items) \ Fingerprints(last.items))
           /\ \A i \in 1..Len(last'.result) :
                 gen_item_hash(last'.result[i]) \notin Fingerprints(last.items)
      ]_vars

\* the part of C3 about an item of both polls, whatever the counts
C3_ItemOfBothPollsNotReturned ==
    [][ (/\ last.op = "update" /\ last'.op = "update"
         /\ last'.link = last.link
         /\ HasFeed(last.link)
         /\ Len(last'.items) = Cardinality(Fingerprints(last'.items))
         /\ Len(last.items) = Cardinality(Fingerprints(last.items)))
        => \A i \in 1..Len(last'.result) :
                 gen_item_hash(last'.result[i]) \notin Fingerprints(last.items)
      ]_vars

\* C4 (differ result): update on an existing feed returns exactly the items
\* of the poll whose fingerprint is not in the feed's hash_list as it was
\* before the call, in the order of the poll.
C4_DifferResult ==
    [][ (last'.op = "update" /\ HasFeed(last'.link))
        => LET idx == NewIndexes(feeds[FeedIdOf(last'.link)].hash_list, last'.items)
           IN  /\ Len(last'.result) = Cardinality(idx)
               /\ \A k \in 1..Len(last'.result) :
                     last'.result[k] =
                        last'.items[CHOOSE i \in idx : Cardinality({j \in idx : j <= i}) = k]
      ]_vars

\* a poll [D, A] with A known and D new returned [D]
C4_Witness ==
    /\ last.op = "update"
    /\ Len(last.items) = 2
    /\ gen_item_hash(last.items[1]) # gen_item_hash(last.items[2])
    /\ last.result = <<last.items[1]>>

\* C5 as claimed (I3): after every update of an existing feed, with or
\* without new items, the hash_list has at most 2 * |items| entries.
C5_WindowBoundAfterEveryUpdate ==
    (last.op = "update" /\ HasFeed(last.link))
    => Len(feeds[FeedIdOf(last.link)].hash_list) <= 2 * Len(last.items)

\* C5 as amended: after every update of an existing feed that returned at
\* least one new item, the hash_list has at most 2 * |items| entries; an
\* update that returned no item leaves the hash_list as it was.
C5_WindowBoundAfterNewItems ==
    [][ (last'.op = "update" /\ HasFeed(last'.link))
        => LET id == FeedIdOf(last'.link)
           IN  /\ id \in DOMAIN feeds'
               /\ IF last'.result # <<>>
                  THEN Len(feeds'[id].hash_list) <= 2 * Len(last'.items)
                  ELSE feeds'[id].hash_list = feeds[id].hash_list
      ]_vars

\* an update with new items left the hash_list at exactly 2 * |items|
C5_Witness ==
    /\ last.op = "update"
    /\ HasFeed(last.link)
    /\ last.result # <<>>
    /\ Len(last.result) < Len(last.items)
    /\ Len(feeds[FeedIdOf(last.link)].hash_list) = 2 * Len(last.items)

\* the fingerprints, in the order of the poll, of the items whose fingerprint
\* the window does not hold
NewFingerprints(hash_list, items) ==
    LET hashes == MapSeq(gen_item_hash, items)
    IN  SelectSeq(hashes, LAMBDA h : ~Contains(hash_list, h))

\* C29 (window content): after an update that found a new item the
\* hash_list is the new fingerprints in the order of the poll, then the
\* entries of the old hash_list in their order, cut to 2 * |items| in all;
\* an update that found none leaves the hash_list as it was.
C29_WindowContent ==
    [][ (last'.op = "update" /\ HasFeed(last'.link))
        => LET id == FeedIdOf(last'.link)
               old == feeds[id].hash_list
               new == NewFingerprints(old, last'.items)
           IN  /\ id \in DOMAIN feeds'
               /\ feeds'[id].hash_list =
                     IF new # <<>> THEN Take(new \o old, 2 * Len(last'.items)) ELSE old
      ]_vars

\* a poll of one item, a new one, left its fingerprint in front of an old
\* entry
C29_Witness ==
    /\ last.op = "update"
    /\ HasFeed(last.link)
    /\ Len(last.items) = 1
    /\ Len(last.result) = 1
    /\ LET hash_list == feeds[FeedIdOf(last.link)].hash_list
       IN  /\ Len(hash_list) = 2
           /\ hash_list[1] = gen_item_hash(last.items[1])
           /\ hash_list[2] # hash_list[1]

\* C6 (no delivery on subscribe): the hash_list of a feed that subscribe
\* creates from the items I holds the fingerprint of every item of I, and the
\* update that follows it with a poll of items of I only returns nothing.
C6_NoDeliveryOnSubscribe ==
    [][ /\ (last'.op = "subscribe" /\ last'.created)
           => Fingerprints(last'.items) \subseteq
                 Range(feeds'[FeedIdOf(last'.link)].hash_list)
        /\ (/\ last.op = "subscribe" /\ last.created
            /\ last'.op = "update" /\ last'.link = last.link
            /\ Range(last'.items) \subseteq Range(last.items))
           => last'.result = <<>>
      ]_vars

\* subscribe created a feed from two items of different fingerprints
C6_Witness ==
    /\ last.op = "subscribe"
    /\ last.created
    /\ Cardinality(Fingerprints(last.items)) = 2
    /\ Len(feeds[FeedIdOf(last.link)].hash_list) = 2

StoreUnchanged == feeds' = feeds /\ subscribers' = subscribers

\* C7: subscribe reports a new subscription exactly when s was not
\* subscribed to the link before the call, and on an already-subscribed pair
\* reports AlreadySubscribed and leaves feeds and the index as they were.
C7_SubscribeReportsNew ==
    [][ last'.op = "subscribe"
        => LET was == is_subscribed(DB, last'.subscriber, last'.link)
           IN  /\ last'.ret = "Ok" <=> ~was
               /\ was => last'.ret = "AlreadySubscribed" /\ StoreUnchanged
      ]_vars

\* what a successful removal of (s, id) changes in the two maps, and nothing else
UnsubscribeFrame(s, id) ==
    /\ DOMAIN feeds' \subseteq DOMAIN feeds
    /\ \A id2 \in DOMAIN feeds \ {id} : id2 \in DOMAIN feeds' /\ feeds'[id2] = feeds[id2]
    /\ IF id \in DOMAIN feeds'
       THEN /\ feeds'[id] = [feeds[id] EXCEPT !.subscribers = @ \ {s}]
            /\ feeds'[id].subscribers # {}
       ELSE feeds[id].subscribers = {s}
    /\ DOMAIN subscribers' \subseteq DOMAIN subscribers
    /\ \A s2 \in DOMAIN subscribers \ {s} :
          s2 \in DOMAIN subscribers' /\ subscribers'[s2] = subscribers[s2]
    /\ IF s \in DOMAIN subscribers'
       THEN /\ subscribers'[s] = subscribers[s] \ {id}
            /\ subscribers'[s] # {}
       ELSE subscribers[s] = {id}

\* C8: unsubscribe returns the feed record exactly when s was
\* subscribed to the link before the call; otherwise it reports NotSubscribed
\* and changes nothing; on success it removes s from the feed and the feed from
\* the entry of s and changes nothing else but for an emptied feed or entry.
C8_UnsubscribeReturnsFeed ==
    [][ last'.op = "unsubscribe"
        => LET s == last'.subscriber
               id == FeedIdOf(last'.link)
               was == is_subscribed(DB, s, last'.link)
           IN  /\ last'.feed # None <=> was
               /\ ~was => last'.ret = "NotSubscribed" /\ StoreUnchanged
               /\ last'.feed # None => UnsubscribeFrame(s, id)
      ]_vars

\* C9: after delete_subscriber(s), s is in no feed's subscribers and has no
\* entry in the index; every feed whose only subscriber was s is gone; every
\* other feed is as it was but for s; a store where s has no subscription is
\* left as it was.
C9_DeleteSubscriber ==
    [][ (last'.op = "delete_subscriber" /\ last'.ret = "Ok")
        => LET s == last'.subscriber
           IN  /\ \A id \in DOMAIN feeds' : s \notin feeds'[id].subscribers
               /\ s \notin DOMAIN subscribers'
               /\ \A id \in DOMAIN feeds :
                     IF feeds[id].subscribers = {s}
                     THEN id \notin DOMAIN feeds'
                     ELSE /\ id \in DOMAIN feeds'
                          /\ feeds'[id] = [feeds[id] EXCEPT !.subscribers = @ \ {s}]
               /\ (\A l \in Links : ~is_subscribed(DB, s, l)) => StoreUnchanged
      ]_vars

\* C10: after update_subscriber(from, to) with from a subscriber and
\* from # to, from is subscribed to no feed and is in no feed's subscribers,
\* and to is subscribed to every feed from was subscribed to.
C10_UpdateSubscriber ==
    [][ (/\ last'.op = "update_subscriber"
         /\ last'.subscriber \in DOMAIN subscribers
         /\ last'.subscriber # last'.to)
        => LET from == last'.subscriber
               to == last'.to
           IN  /\ \A l \in Links : ~is_subscribed(DBNext, from, l)
               /\ \A id \in DOMAIN feeds' : from \notin feeds'[id].subscribers
               /\ \A id \in subscribers[from] :
                     is_subscribed(DBNext, to, feeds[id].link)
      ]_vars

\* C36 (update_subscriber tolerates a vanished subscriber):
\* update_subscriber(from, to) with from not a subscriber leaves the store as
\* it was and returns normally.
C36_UpdateSubscriberOfNoSubscriber ==
    [][ (last'.op = "update_subscriber" /\ last'.subscriber \notin DOMAIN subscribers)
        => (StoreUnchanged /\ last'.ret = "Ok") ]_vars

\* the chats that a feed of the store has among its subscribers
FeedSubscribers == {s \in Subscribers : \E id \in DOMAIN feeds : s \in feeds[id].subscribers}

\* C37 (subscriber-entry lifecycle): after any sequence of calls of the store
\* every key of the subscriber index has a feed, get_subscribed_feeds(s) is
\* None exactly when s is subscribed to no feed, and get_all_subscribers is the
\* set of the chats that are among the subscribers of a feed.
C37_SubscriberEntryLifecycle ==
    Running =>
        /\ \A s \in DOMAIN subscribers : subscribers[s] # {}
        /\ \A s \in Subscribers :
              get_subscribed_feeds(DB, s) = None
                  <=> \A l \in Links : ~is_subscribed(DB, s, l)
        /\ get_all_subscribers(DB) = FeedSubscribers

\* C38 (store unchanged on error): a subscribe or unsubscribe that returns an
\* error (AlreadySubscribed, NotSubscribed, or the snapshot file could not be
\* written) leaves the feeds and the subscriber index as they were.
C38_StoreUnchangedOnError ==
    [][ (/\ last'.op \in {"subscribe", "unsubscribe"}
         /\ last'.ret \in {"AlreadySubscribed", "NotSubscribed", "DatabaseSave"})
        => StoreUnchanged ]_vars

----------------------------------------------------------------------------
(* The feed loop and fetch_feed_updates (src/src/fetcher.rs, and the same  *)
(* code in src/src/main.rs).  The reactor runs one closure at a time: each *)
(* action is one closure of the future, between two of its waits.          *)

\* inc_error_count beyond this count: the subscribers are told
ErrorLimit == 1440
\* the feed loop ticks at most MaxTicks times
MaxTicks == 2

\* what a send may come back with: a description is kept as the set of the
\* phrases it contains
Forbidden == [kind |-> "telegram", description |-> {"Forbidden"}, migrate_to_chat_id |-> 0]
Migrated(to) ==
    [kind |-> "telegram", description |-> {"group chat was migrated to a supergroup chat"},
     migrate_to_chat_id |-> to]
TooManyRequests ==
    [kind |-> "telegram", description |-> {"Too Many Requests"}, migrate_to_chat_id |-> 0]
NetworkError == [kind |-> "network", description |-> {}, migrate_to_chat_id |-> 0]
Delivered == [kind |-> "ok", description |-> {}, migrate_to_chat_id |-> 0]
SendOutcomes(s) ==
    {Delivered, Forbidden, TooManyRequests, NetworkError}
        \cup {Migrated(to) : to \in Subscribers \ {s}}

shoud_unsubscribe_for_user(tg_err_msg) ==
    \/ "Forbidden" \in tg_err_msg
    \/ "chat not found" \in tg_err_msg
    \/ "group chat was migrated to a supergroup chat" \in tg_err_msg

\* the match on the error of a send: Error::Telegram(s) if shoud_unsubscribe_for_user(s)
unsubscribes(outcome) ==
    outcome.kind = "telegram" /\ shoud_unsubscribe_for_user(outcome.description)

Message(to, kind, link) == [to |-> to, kind |-> kind, link |-> link]

\* a spawned fetch_feed_updates: the Feed it was given, a copy taken at the
\* tick, and the sends it waits for
Worker(feed) ==
    [link |-> feed.link, title |-> feed.title, subscribers |-> feed.subscribers,
     phase |-> "fetching", pending |-> {}, closing |-> {}]

Put(bag, w) == bag (+) SetToBag({w})
Drop(bag, w) == bag (-) SetToBag({w})

\* the closure of the feed loop: one fetch_feed_updates per feed of the store
Tick(limit) ==
    /\ Running
    /\ ticks < limit
    /\ ticks' = ticks + 1
    /\ UNCHANGED <<split, scan, xml, http, fmt, cmd, delivery, fix, handlers>>
    /\ workers' = workers (+) SetToBag({Worker(feed) : feed \in get_all_feeds(DB)})
    /\ sent' = EmptyBag
    /\ last' = Call("tick")
    /\ UNCHANGED <<feeds, subscribers, disk>>

\* lines 136-146: the title of the store follows the fetched one, then update
on_fetched(db, feed, rss, io) ==
    LET db1 == IF rss.title # feed.title
               THEN update_title(db, feed.link, rss.title)
               ELSE db
    IN  update(db1, feed.link, rss.items, io)

\* fetch_feed came back with the parsed feed
Fetched(w, rss, io) ==
    /\ Running
    /\ BagIn(w, workers)
    /\ w.phase = "fetching"
    /\ LET r == on_fetched(DB, w, rss, io)
           waits == r.result # <<>> /\ w.subscribers # {}
       IN  /\ feeds' = r.db.feeds
           /\ subscribers' = r.db.subscribers
           /\ disk' = Written(r.file, disk)
           /\ workers' = IF waits
                         THEN Put(Drop(workers, w),
                                  [w EXCEPT !.phase = "updates", !.pending = w.subscribers])
                         ELSE Drop(workers, w)
           /\ sent' = IF r.result # <<>>
                      THEN SetToBag({Message(s, "updates", w.link) : s \in w.subscribers})
                      ELSE EmptyBag
           /\ UNCHANGED <<ticks, split, scan, xml, http, fmt, cmd, delivery, fix, handlers>>
           /\ last' = [Call("fetched") EXCEPT
                          !.link = w.link, !.title = rss.title, !.items = rss.items,
                          !.ios = Take(<<io>>, r.saves), !.result = r.result, !.ret = r.ret,
                          !.count = IF get_hash(w.link) \in DOMAIN feeds
                                    THEN feeds[get_hash(w.link)].error_count
                                    ELSE 0,
                          !.snapshot = w.subscribers]

\* a failure handler that tells the subscribers and keeps the count
on_fetch_failed_keeps_count(db, feed) ==
    LET r == inc_error_count(db, feed.link)
    IN  [db |-> r.db, count |-> r.ret, notify |-> r.ret > ErrorLimit]

\* lines 79-88: the failure counted, and beyond ErrorLimit the count reset
on_fetch_failed(db, feed) ==
    LET r == inc_error_count(db, feed.link)
    IN  IF r.ret > ErrorLimit
        THEN [db |-> reset_error_count(r.db, feed.link), count |-> r.ret, notify |-> TRUE]
        ELSE [db |-> r.db, count |-> r.ret, notify |-> FALSE]

\* fetch_feed came back with an error
FetchFailed(w) ==
    /\ Running
    /\ BagIn(w, workers)
    /\ w.phase = "fetching"
    /\ LET r == on_fetch_failed(DB, w)
           waits == r.notify /\ w.subscribers # {}
       IN  /\ feeds' = r.db.feeds
           /\ subscribers' = r.db.subscribers
           /\ workers' = IF waits
                         THEN Put(Drop(workers, w),
                                  [w EXCEPT !.phase = "failure", !.pending = w.subscribers])
                         ELSE Drop(workers, w)
           /\ sent' = IF r.notify
                      THEN SetToBag({Message(s, "failure", w.link) : s \in w.subscribers})
                      ELSE EmptyBag
           /\ last' = [Call("fetch_failed") EXCEPT
                          !.link = w.link, !.count = r.count, !.snapshot = w.subscribers]
           /\ UNCHANGED <<disk, ticks, split, scan, xml, http, fmt, cmd, delivery, fix, handlers>>

\* a worker with nothing left to wait for is finished
Waiting(bag, w, w2) ==
    IF w2.pending = {} /\ w2.closing = {}
    THEN Drop(bag, w)
    ELSE Put(Drop(bag, w), w2)

\* the send to subscriber s came back (lines 105-128 and 168-189)
SendResult(w, s, outcome, io) ==
    /\ Running
    /\ BagIn(w, workers)
    /\ s \in w.pending
    /\ UNCHANGED <<ticks, split, scan, xml, http, fmt, cmd, delivery, fix, handlers>>
    /\ IF unsubscribes(outcome)
       THEN LET r == unsubscribe(DB, s, w.link, io)
            IN  /\ feeds' = r.db.feeds
                /\ subscribers' = r.db.subscribers
                /\ disk' = Written(r.file, disk)
                /\ sent' = SetToBag({Message(s, "unsubscribed", w.link)})
                /\ workers' = Put(Drop(workers, w),
                                  [w EXCEPT !.pending = @ \ {s}, !.closing = @ \cup {s}])
                /\ last' = [Call("send_result") EXCEPT
                               !.subscriber = s, !.link = w.link, !.error = Some(outcome),
                               !.to = outcome.migrate_to_chat_id,
                               !.ios = Take(<<io>>, r.saves), !.ret = r.ret]
       ELSE /\ UNCHANGED <<feeds, subscribers, disk>>
            /\ sent' = EmptyBag
            /\ workers' = IF w.phase = "failure" /\ outcome.kind # "ok"
                          THEN \* the future of this send fails and join_all with it
                               Drop(workers, w)
                          ELSE Waiting(workers, w, [w EXCEPT !.pending = @ \ {s}])
            /\ last' = [Call("send_result") EXCEPT
                           !.subscriber = s, !.link = w.link,
                           !.error = IF outcome.kind = "ok" THEN None ELSE Some(outcome)]

\* the send of the "unsubscribed" message to s came back, with whatever
\* result: .then(|_| Err(())) fails the future of s and join_all with it
Farewell(w, s) ==
    /\ Running
    /\ BagIn(w, workers)
    /\ s \in w.closing
    /\ workers' = Drop(workers, w)
    /\ sent' = EmptyBag
    /\ last' = [Call("farewell") EXCEPT !.subscriber = s, !.link = w.link]
    /\ UNCHANGED <<feeds, subscribers, disk, ticks, split, scan, xml, http, fmt, cmd, delivery, fix, handlers>>

\* the store when the feed loop starts: chat 1 subscribed to the polled feed,
\* whose last polls have failed
FailedPolls == {ErrorLimit - 1, ErrorLimit}
InitFetch ==
    \E l \in PolledLinks, rss \in RSSOver({"T"}, {}, 0), n \in FailedPolls :
        LET db == subscribe(create_db, 1, l, rss, "ok").db
            id == get_hash(l)
        IN  /\ feeds = [db.feeds EXCEPT ![id].error_count = n]
            /\ subscribers = db.subscribers
            /\ last = Call("create")
            /\ disk = NotFollowed
            /\ workers = EmptyBag
            /\ sent = EmptyBag
            /\ ticks = 0
            /\ handlers = NoHandlers
            /\ fix = NoFix
            /\ delivery = NoDelivery
            /\ cmd = NoCommand
            /\ fmt = NoFormat
            /\ http = NoRequest
            /\ xml = NoXml
            /\ split = NoSplit
            /\ scan = None

\* the subscriptions of two chats to one feed, and the feed loop
NextFetch ==
    \/ \E s \in Subscribers, l \in PolledLinks, rss \in RSSOver({"T"}, {}, 0) :
          Subscribe(s, l, rss, "ok")
    \/ \E s \in Subscribers, l \in PolledLinks : Unsubscribe(s, l, "ok")
    \/ Tick(MaxTicks)
    \/ \E w \in BagToSet(workers), rss \in RSSOver(Titles, SpecItems, MaxItems) :
          Fetched(w, rss, "ok")
    \/ \E w \in BagToSet(workers) : FetchFailed(w)
    \/ \E w \in BagToSet(workers), s \in Subscribers :
          \E outcome \in SendOutcomes(s) : SendResult(w, s, outcome, "ok")
    \/ \E w \in BagToSet(workers), s \in Subscribers : Farewell(w, s)

SpecFetch == InitFetch /\ [][NextFetch]_vars

\* the fetches of one link that are in flight
InFlight(link) ==
    LET ws == {w \in BagToSet(workers) : w.link = link}
    IN  BagCardinality([w \in ws |-> workers[w]])

\* C14 (no concurrent dispatch): at no time are two fetches of one feed link
\* in flight.
C14_NeverDispatchedTwice == \A link \in Links : InFlight(link) <= 1

\* the failure messages handed to the bot for the chats of a set
FailureMessages(chats, link) == SetToBag({Message(s, "failure", link) : s \in chats})

\* C15 (vanished feed): a fetch that comes back when the store has no feed of
\* its link changes nothing: on success update returns no item, the feed is
\* not created again and no message is sent; on failure no message is sent
\* and the store is as it was.
C15_VanishedFeed ==
    [][ (last'.op \in {"fetched", "fetch_failed"} /\ ~HasFeed(last'.link))
        => /\ StoreUnchanged
           /\ last'.result = <<>>
           /\ sent' = EmptyBag ]_vars

\* a poll with an item came back for a feed whose last subscriber had left
C15_Witness ==
    /\ last.op = "fetched"
    /\ last.items # <<>>
    /\ last.snapshot # {}
    /\ ~HasFeed(last.link)

\* a failed fetch came back for a feed whose last subscriber had left, after
\* polls that had failed ErrorLimit times
C15_WitnessFailed ==
    /\ last.op = "fetch_failed"
    /\ last.snapshot # {}
    /\ ~HasFeed(last.link)

C31_SuccessResetsFailures ==
    [][ /\ (last'.op = "fetched" /\ HasFeed(last'.link))
            => feeds'[FeedIdOf(last'.link)].error_count = 0
        /\ (/\ last.op = "fetched" /\ HasFeed(last.link)
            /\ last'.op = "fetch_failed" /\ last'.link = last.link)
            => /\ last'.count = 1
               /\ feeds'[FeedIdOf(last'.link)].error_count = 1
               /\ sent' = EmptyBag ]_vars

\* a poll without a new item came back for a feed whose polls had failed
C31_Witness ==
    /\ last.op = "fetched"
    /\ last.result = <<>>
    /\ last.count >= ErrorLimit - 1
    /\ HasFeed(last.link)
    /\ feeds[FeedIdOf(last.link)].error_count = 0

\* C40 (no delivery after unsubscribe): the messages about new items and
\* about an outage that a fetch hands to the bot go to chats that are
\* subscribed to the feed at that time: a chat that has unsubscribed from the
\* feed gets none, even from a fetch that was dispatched before it did.
C40_NoDeliveryAfterUnsubscribe ==
    [][ last'.op \in {"fetched", "fetch_failed"}
        => \A m \in BagToSet(sent') :
              m.kind \in {"updates", "failure"} => is_subscribed(DB, m.to, m.link) ]_vars

\* the feed loop of SpecSend ticks at most MaxSendTicks times
MaxSendTicks == 1

\* the subscriptions of two chats to two feeds, the feed loop and the
\* deliveries of its polls
NextSend ==
    \/ \E s \in Subscribers, l \in Links, rss \in RSSOver({"T"}, {}, 0) :
          Subscribe(s, l, rss, "ok")
    \/ Tick(MaxSendTicks)
    \/ \E w \in BagToSet(workers), rss \in RSSOver({"T"}, SpecItems, MaxItems) :
          Fetched(w, rss, "ok")
    \/ \E w \in BagToSet(workers), s \in Subscribers :
          \E outcome \in {Delivered, Forbidden} \cup {Migrated(to) : to \in Subscribers \ {s}} :
              SendResult(w, s, outcome, "ok")
    \/ \E w \in BagToSet(workers), s \in Subscribers : Farewell(w, s)

SpecSend == Init /\ [][NextSend]_vars

\* C17 (unreachable subscriber): after a send to s has failed with a
\* description that contains "Forbidden", s is a subscriber of no feed of the
\* store and has no entry in the index.
C17_UnreachableSubscriberDeleted ==
    [][ (last'.op = "send_result" /\ last'.error = Some(Forbidden))
        => /\ \A id \in DOMAIN feeds' : last'.subscriber \notin feeds'[id].subscribers
           /\ last'.subscriber \notin DOMAIN subscribers' ]_vars

\* C18 (chat migration): after a send to s has failed because the chat
\* migrated to a new id, the new id is subscribed to the feed, s is not, and
\* the message is sent again to the new id.
C18_MigratedSubscriberFollows ==
    [][ (last'.op = "send_result" /\ last'.error # None
            /\ "group chat was migrated to a supergroup chat" \in last'.error[1].description)
        => /\ is_subscribed(DBNext, last'.to, last'.link)
           /\ ~is_subscribed(DBNext, last'.subscriber, last'.link)
           /\ BagIn(Message(last'.to, "updates", last'.link), sent') ]_vars

----------------------------------------------------------------------------
(* The delivery of one update (src/src/fetcher.rs, lines 146-193, and       *)
(* send_multiple_messages of src/src/utlis.rs): one chain of sends for each *)
(* subscriber of the Feed the fetch was given, all under one join_all.      *)

\* the most messages format_and_split_msgs makes of one update
MaxMsgs == 2

\* lines 162-191: the first poll of join_all polls every chain, and each
\* chain starts the send of its first message
Deliver(feed, n) ==
    /\ Running
    /\ delivery = NoDelivery
    /\ feed.subscribers # {}
    /\ delivery' = [link        |-> feed.link,
                    msgs        |-> n,
                    subscribers |-> feed.subscribers,
                    state       |-> [s \in feed.subscribers |-> "sending"],
                    started     |-> [s \in feed.subscribers |-> <<1>>],
                    acked       |-> [s \in feed.subscribers |-> 0],
                    failed      |-> [s \in feed.subscribers |-> 0],
                    joined      |-> "waiting"]
    /\ last' = [Call("deliver") EXCEPT !.link = feed.link, !.snapshot = feed.subscribers]
    /\ UNCHANGED <<feeds, subscribers, disk, workers, sent, ticks, split, scan, xml, http,
                   fmt, cmd, fix, handlers>>

\* join_all is done when every chain is: .then(|_| Ok(()))
Joined(d) ==
    IF \A s \in d.subscribers : d.state[s] = "done"
    THEN [d EXCEPT !.joined = "ok"]
    ELSE d

\* send_multiple_messages (utlis.rs 74-91) and the or_else of lines 168-189:
\* the send of a message to subscriber s came back
ChunkResult(s, outcome, io) ==
    /\ Running
    /\ delivery.joined = "waiting"
    /\ s \in delivery.subscribers
    /\ delivery.state[s] = "sending"
    /\ LET k == Len(delivery.started[s])
       IN  IF outcome.kind = "ok"
           THEN /\ delivery' =
                      IF k < delivery.msgs
                      THEN \* and_then: the next message of the chain
                           [delivery EXCEPT !.acked[s] = k,
                                            !.started[s] = Append(@, k + 1)]
                      ELSE Joined([delivery EXCEPT !.acked[s] = k, !.state[s] = "done"])
                /\ last' = [Call("chunk_result") EXCEPT
                               !.subscriber = s, !.link = delivery.link, !.count = k]
                /\ UNCHANGED <<feeds, subscribers, disk>>
           ELSE IF unsubscribes(outcome)
           THEN LET r == unsubscribe(DB, s, delivery.link, io)
                IN  /\ feeds' = r.db.feeds
                    /\ subscribers' = r.db.subscribers
                    /\ disk' = Written(r.file, disk)
                    /\ delivery' = [delivery EXCEPT !.failed[s] = k, !.state[s] = "closing"]
                    /\ last' = [Call("chunk_result") EXCEPT
                                   !.subscriber = s, !.link = delivery.link, !.count = k,
                                   !.error = Some(outcome), !.ios = Take(<<io>>, r.saves),
                                   !.ret = r.ret]
           ELSE \* warn!("failed to send updates ..."), Ok(())
                /\ delivery' = Joined([delivery EXCEPT !.failed[s] = k, !.state[s] = "done"])
                /\ last' = [Call("chunk_result") EXCEPT
                               !.subscriber = s, !.link = delivery.link, !.count = k,
                               !.error = Some(outcome)]
                /\ UNCHANGED <<feeds, subscribers, disk>>
    /\ UNCHANGED <<workers, sent, ticks, split, scan, xml, http, fmt, cmd, fix, handlers>>

\* lines 185-187: the send of the message about the unsubscription came back:
\* .then(|_| Err(())) fails the chain of s, join_all fails with it and drops
\* the chains that are not done
FarewellResult(s) ==
    /\ Running
    /\ delivery.joined = "waiting"
    /\ s \in delivery.subscribers
    /\ delivery.state[s] = "closing"
    /\ delivery' = [delivery EXCEPT
                       !.joined = "failed",
                       !.state = [t \in delivery.subscribers |->
                                     IF t = s THEN "closed"
                                     ELSE IF delivery.state[t] = "done" THEN "done"
                                     ELSE "dropped"]]
    /\ last' = [Call("farewell_result") EXCEPT !.subscriber = s, !.link = delivery.link]
    /\ UNCHANGED <<feeds, subscribers, disk, workers, sent, ticks, split, scan, xml, http,
                   fmt, cmd, fix, handlers>>

\* the subscriptions of the chats to one feed, then the delivery of one update
\* of the feed
NextDeliver ==
    \/ \E s \in Subscribers, l \in PolledLinks, rss \in RSSOver({"T"}, {}, 0) :
          /\ delivery = NoDelivery
          /\ Subscribe(s, l, rss, "ok")
    \/ \E feed \in get_all_feeds(DB), n \in 1..MaxMsgs : Deliver(feed, n)
    \/ \E s \in Subscribers, outcome \in {Delivered, Forbidden, NetworkError} :
          ChunkResult(s, outcome, "ok")
    \/ \E s \in Subscribers : FarewellResult(s)

SpecDeliver == Init /\ [][NextDeliver]_vars

\* C32 (per-subscriber delivery order): the messages of one update are sent
\* to a subscriber in their order, each after the one before it has been
\* delivered; after a message to a subscriber has failed no later message of
\* the update is sent to that subscriber; and the sends to the other
\* subscribers go on: once the delivery is over, every subscriber without a
\* failed send has been sent every message.
C32_DeliveryOrder ==
    \A s \in delivery.subscribers :
        LET k == Len(delivery.started[s])
        IN  /\ delivery.started[s] = [i \in 1..k |-> i]
            /\ k <= delivery.acked[s] + 1
            /\ delivery.failed[s] # 0 => k = delivery.failed[s]
            /\ (delivery.joined # "waiting" /\ delivery.failed[s] = 0)
                   => delivery.acked[s] = delivery.msgs

----------------------------------------------------------------------------
(* The large-message splitter: format_and_split_msgs (src/src/utlis.rs and *)
(* src/src/main.rs) and format_large_msg (src/src/messages.rs), the same   *)
(* code.  A String is kept as the pieces it was put together from, each    *)
(* with its len(), a count of bytes: the head, line number no of the data, *)
(* or a '\n'.                                                              *)

TELEGRAM_MAX_MSG_LEN == 4096

\* the lists of SpecSplit have at most MaxLines lines
MaxLines == 2

Str(text, no, n) == <<[text |-> text, no |-> no, len |-> n]>>
NewLine == Str("\n", 0, 1)

RECURSIVE len(_)
len(str) == IF str = <<>> THEN 0 ELSE Head(str).len + len(Tail(str))

\* a loop body that puts the line in the place of a full last message
push_line_over_last(msgs, line) ==
    IF len(msgs[Len(msgs)]) + len(line) > TELEGRAM_MAX_MSG_LEN
    THEN [msgs EXCEPT ![Len(msgs)] = line]
    ELSE [msgs EXCEPT ![Len(msgs)] = @ \o NewLine \o line]

\* the body of the loop: the line starts a message of its own, or follows
\* '\n' in the last message
push_line(msgs, line) ==
    IF len(msgs[Len(msgs)]) + len(line) > TELEGRAM_MAX_MSG_LEN
    THEN Append(msgs, line)
    ELSE [msgs EXCEPT ![Len(msgs)] = @ \o NewLine \o line]

RECURSIVE split_from(_, _)
split_from(msgs, lines) ==
    IF lines = <<>>
    THEN msgs
    ELSE split_from(push_line(msgs, Head(lines)), Tail(lines))

\* lines: line_format_fn applied to each item of data
format_and_split_msgs(head, lines) == split_from(<<head>>, lines)

\* the lengths of the heads and of the formatted lines
HeadLens == {0, 1, TELEGRAM_MAX_MSG_LEN - 1, TELEGRAM_MAX_MSG_LEN}
LineLens == {0, 1, TELEGRAM_MAX_MSG_LEN - 1, TELEGRAM_MAX_MSG_LEN}

InitSplit ==
    /\ feeds = create_db.feeds
    /\ subscribers = create_db.subscribers
    /\ last = Call("create")
    /\ disk = NotFollowed
    /\ workers = EmptyBag
    /\ sent = EmptyBag
    /\ ticks = 0
    /\ handlers = NoHandlers
    /\ fix = NoFix
    /\ delivery = NoDelivery
    /\ cmd = NoCommand
    /\ fmt = NoFormat
    /\ http = NoRequest
    /\ xml = NoXml
    /\ scan = None
    /\ \E head \in HeadLens, lines \in SeqsUpTo(LineLens, MaxLines) :
          split = [head |-> Str("head", 0, head),
                   data |-> [i \in 1..Len(lines) |-> Str("line", i, lines[i])],
                   msgs |-> None]

FormatAndSplit ==
    /\ split.msgs = None
    /\ split' = [split EXCEPT !.msgs = Some(format_and_split_msgs(split.head, split.data))]
    /\ last' = Call("format_and_split_msgs")
    /\ UNCHANGED <<feeds, subscribers, disk, workers, sent, ticks, scan, xml, http, fmt, cmd, delivery, fix, handlers>>

NextSplit == FormatAndSplit

SpecSplit == InitSplit /\ [][NextSplit]_vars

\* C19 (chunk size cap): with a head and lines of at most TELEGRAM_MAX_MSG_LEN
\* each, no message of the splitter is longer than TELEGRAM_MAX_MSG_LEN, the
\* newlines it inserts counted.
C19_ChunkSizeCap ==
    (/\ split.msgs # None
     /\ len(split.head) <= TELEGRAM_MAX_MSG_LEN
     /\ \A i \in 1..Len(split.data) : len(split.data[i]) <= TELEGRAM_MAX_MSG_LEN)
    => \A i \in 1..Len(split.msgs[1]) : len(split.msgs[1][i]) <= TELEGRAM_MAX_MSG_LEN

\* [String]::join("\n")
RECURSIVE join(_)
join(strs) ==
    IF strs = <<>> THEN <<>>
    ELSE IF Len(strs) = 1 THEN Head(strs)
    ELSE Head(strs) \o NewLine \o join(Tail(strs))

\* C33 (the splitter preserves content): the messages of
\* format_and_split_msgs, joined with '\n', are the head and the formatted
\* lines in the order of the data, joined with '\n'; every line is whole in
\* one message, the head is the start of the first message and there is at
\* least one message.
C33_SplitterPreservesContent ==
    split.msgs # None
    => LET msgs == split.msgs[1]
       IN  /\ Len(msgs) >= 1
           /\ join(msgs) = join(<<split.head>> \o split.data)
           /\ Take(msgs[1], Len(split.head)) = split.head
           /\ \A i \in 1..Len(split.data) :
                  Cardinality({m \in 1..Len(msgs) :
                                  \E j \in 1..Len(msgs[m]) :
                                      <<msgs[m][j]>> = split.data[i]}) = 1

\* two lines: one went behind the head, the other started a message
C33_Witness ==
    /\ split.msgs # None
    /\ Len(split.data) = 2
    /\ Len(split.msgs[1]) = 2
    /\ len(split.msgs[1][1]) > len(split.head)

----------------------------------------------------------------------------
(* The gardener: prune (src/src/gardener.rs).  Each action is the code     *)
(* between two awaits.                                                     *)

ChatKinds == {"private", "group", "supergroup", "channel"}
MemberStatuses == {"creator", "administrator", "member", "restricted", "left", "kicked"}

\* line 32: chat.kind.is_group() || is_supergroup() || is_channel()
has_members(kind) == kind \in {"group", "supergroup", "channel"}

\* a rule that takes a restricted bot for one that has left
is_left_or_kicked_or_restricted(status) == status \in {"left", "kicked", "restricted"}

\* line 40: me.status.is_left() || me.status.is_kicked()
is_left_or_kicked(status) == status \in {"left", "kicked"}

\* the loop moves to the next subscriber, or prune returns Ok(())
NextSubscriber(rest) ==
    IF Len(rest) <= 1 THEN None ELSE Some([rest |-> Tail(rest), kind |-> ""])

\* the interval ticks: prune reads all the subscribers and asks for the chat
\* of the first
Prune ==
    /\ Running
    /\ scan = None
    /\ \E all \in Orders(get_all_subscribers(DB)) :
          scan' = IF all = <<>> THEN None ELSE Some([rest |-> all, kind |-> ""])
    /\ last' = Call("prune")
    /\ UNCHANGED <<feeds, subscribers, disk, workers, sent, ticks, split, xml, http, fmt, cmd, delivery, fix, handlers>>

\* get_chat came back: an error ends the scan, a chat with members has the
\* membership of the bot asked for, any other chat is passed over
GetChat(result) ==
    /\ Running
    /\ scan # None
    /\ scan[1].kind = ""
    /\ scan' = IF result = "error" THEN None
               ELSE IF has_members(result) THEN Some([scan[1] EXCEPT !.kind = result])
               ELSE NextSubscriber(scan[1].rest)
    /\ last' = [Call("get_chat") EXCEPT
                   !.subscriber = Head(scan[1].rest),
                   !.kind = IF result = "error" THEN "" ELSE result,
                   !.ret = IF result = "error" THEN "MethodCall" ELSE "Ok"]
    /\ UNCHANGED <<feeds, subscribers, disk, workers, sent, ticks, split, xml, http, fmt, cmd, delivery, fix, handlers>>

\* get_chat_member came back: an error ends the scan, a bot that has left or
\* was kicked has the subscriber deleted
GetChatMember(result) ==
    /\ Running
    /\ scan # None
    /\ scan[1].kind # ""
    /\ LET subscriber == Head(scan[1].rest)
           deletes == result # "error" /\ is_left_or_kicked(result)
       IN  /\ \E links \in Orders(LinksOf(DB, subscriber)) :
              \E ios \in [1..Len(links) -> SaveOutcomes] :
                 LET r == IF deletes
                          THEN delete_subscriber(DB, subscriber, links, ios)
                          ELSE [db |-> DB, file |-> None, ret |-> "Ok"]
                 IN  /\ feeds' = r.db.feeds
                     /\ subscribers' = r.db.subscribers
                     /\ disk' = Written(r.file, disk)
                     /\ last' = [Call("get_chat_member") EXCEPT
                                    !.subscriber = subscriber, !.kind = scan[1].kind,
                                    !.count = IF deletes THEN Len(links) ELSE 0,
                                    !.status = IF result = "error" THEN "" ELSE result,
                                    !.ret = IF result = "error" THEN "MethodCall" ELSE r.ret]
           /\ scan' = IF result = "error" THEN None ELSE NextSubscriber(scan[1].rest)
           /\ UNCHANGED <<workers, sent, ticks, split, xml, http, fmt, cmd, delivery, fix, handlers>>

\* the subscriptions of two chats to two feeds, and the gardener
NextGardener ==
    \/ \E s \in Subscribers, l \in Links, rss \in RSSOver({"T"}, {}, 0) :
          Subscribe(s, l, rss, "ok")
    \/ \E s \in Subscribers, l \in Links : Unsubscribe(s, l, "ok")
    \/ Prune
    \/ \E result \in ChatKinds \cup {"error"} : GetChat(result)
    \/ \E result \in MemberStatuses \cup {"error"} : GetChatMember(result)

SpecGardener == Init /\ [][NextGardener]_vars

\* C20 (gardener pruning rule): a step of the scan deletes the subscriber it
\* looks at exactly when the chat is a group, a supergroup or a channel and the
\* bot's status in it is left or kicked, and the subscriber is then in no
\* feed and not in the index; every other step leaves the store as it was.
C20_GardenerPruningRule ==
    [][ last'.op \in {"get_chat", "get_chat_member"}
        => LET s == last'.subscriber
               found == /\ last'.op = "get_chat_member"
                        /\ last'.kind \in {"group", "supergroup", "channel"}
                        /\ last'.status \in {"left", "kicked"}
           IN  IF found
               THEN /\ s \notin DOMAIN subscribers'
                    /\ \A id \in DOMAIN feeds' : s \notin feeds'[id].subscribers
                    /\ \A id \in DOMAIN feeds' :
                          id \in DOMAIN feeds /\ feeds'[id].subscribers = feeds[id].subscribers \ {s}
                    /\ \A o \in DOMAIN subscribers' : subscribers'[o] = subscribers[o]
               ELSE StoreUnchanged ]_vars

\* the gardener has just deleted a subscriber of two feeds, and a feed of
\* another chat is left in the store
C20_Witness ==
    /\ last.op = "get_chat_member"
    /\ last.status \in {"left", "kicked"}
    /\ last.count = 2
    /\ DOMAIN feeds # {}
    /\ last.subscriber \notin DOMAIN subscribers

\* C21 (gardener error tolerance): an error of get_chat or get_chat_member
\* for one subscriber does not end the scan: the subscribers that prune had
\* still to look at are looked at next.
C21_GardenerIgnoresErrors ==
    [][ (/\ last'.op \in {"get_chat", "get_chat_member"}
         /\ last'.ret = "MethodCall"
         /\ Len(scan[1].rest) > 1)
        => /\ scan' # None
           /\ scan'[1].rest = Tail(scan[1].rest) ]_vars

----------------------------------------------------------------------------
(* The feed parser: parse and the FromXml implementations (src/src/feed.rs) *)
(* over the events that quick_xml's Reader hands out.                      *)

\* the events of the reader.  Past the last event of a stream read_event
\* returns Eof, again and again; Error is read_event returning Err
QName(prefix, local) == [prefix |-> prefix, local |-> local]
NoAttributes == [href |-> None, rel |-> None, malformed |-> FALSE]
Start(name, attributes) == [e |-> "Start", name |-> name, attributes |-> attributes]
Empty(name, attributes) == [e |-> "Empty", name |-> name, attributes |-> attributes]
End == [e |-> "End"]
Text(text) == [e |-> "Text", text |-> text]
CData(text) == [e |-> "CData", text |-> text]
Comment == [e |-> "Comment"]
Error == [e |-> "Error"]
Eof == [e |-> "Eof"]

read_event(events) ==
    IF events = <<>>
    THEN [event |-> Eof, rest |-> <<>>]
    ELSE [event |-> Head(events), rest |-> Tail(events)]

\* what a from_xml returns: Ok(value) and what is left to read, or Err
Ok(value, rest) == [ret |-> "Ok", value |-> value, rest |-> rest]
Err(error) == [ret |-> "Err", error |-> error]
Panics == [ret |-> "Panic"]

\* str::parse::<u32> of the texts of the model
Numerals == ("0" :> 0) @@ ("1" :> 1) @@ ("6" :> 6) @@ ("42" :> 42)
parse_u32(text) == IF text \in DOMAIN Numerals THEN Some(Numerals[text]) ELSE None

\* lines 32-66
parse_atom_link(attributes) ==
    IF attributes.malformed
    THEN Err("Parse")
    ELSE IF attributes.href = None
    THEN Ok(None, <<>>)
    ELSE LET href == attributes.href[1]
         IN  IF attributes.rel = None \/ attributes.rel = Some("alternate")
             THEN Ok(Some([link |-> "Alternate", href |-> href]), <<>>)
             ELSE IF attributes.rel = Some("self")
             THEN Ok(Some([link |-> "Source", href |-> href]), <<>>)
             ELSE IF attributes.rel = Some("hub")
             THEN Ok(Some([link |-> "Hub", href |-> href]), <<>>)
             ELSE Ok(Some([link |-> "Other", href |-> href]), <<>>)

\* SkipThisElement::from_xml, lines 76-89
RECURSIVE skip_loop(_, _)
skip_loop(events, depth) ==
    LET r == read_event(events)
    IN  CASE r.event.e = "Start" -> skip_loop(r.rest, depth + 1)
          [] r.event.e = "End" /\ depth = 1 -> Ok("SkipThisElement", r.rest)
          [] r.event.e = "End" /\ depth # 1 -> skip_loop(r.rest, depth - 1)
          [] r.event.e = "Eof" -> Ok("SkipThisElement", r.rest)
          [] r.event.e = "Error" -> Err("Parse")
          [] OTHER -> skip_loop(r.rest, depth)

\* a skip that reads nothing: the elements inside are read as if outside
SkipThisElement_skips_nothing(events) == Ok("SkipThisElement", events)

SkipThisElement_from_xml(events) == skip_loop(events, 1)

\* Option<u32>::from_xml, lines 99-116
RECURSIVE u32_loop(_, _)
u32_loop(events, output) ==
    LET r == read_event(events)
    IN  CASE r.event.e = "Start" ->
               LET sk == SkipThisElement_from_xml(r.rest)
               IN  IF sk.ret = "Err" THEN sk ELSE u32_loop(sk.rest, output)
          [] r.event.e = "Text" -> u32_loop(r.rest, parse_u32(r.event.text))
          [] r.event.e \in {"End", "Eof"} -> Ok(output, r.rest)
          [] r.event.e = "Error" -> Err("Parse")
          [] OTHER -> u32_loop(r.rest, output)

OptionU32_from_xml(events) == u32_loop(events, None)

\* Option<String>::from_xml, lines 126-147
RECURSIVE string_loop(_, _)
string_loop(events, content) ==
    LET r == read_event(events)
    IN  CASE r.event.e = "Start" ->
               LET sk == SkipThisElement_from_xml(r.rest)
               IN  IF sk.ret = "Err" THEN sk ELSE string_loop(sk.rest, content)
          [] r.event.e \in {"Text", "CData"} -> string_loop(r.rest, Some(r.event.text))
          [] r.event.e \in {"End", "Eof"} -> Ok(content, r.rest)
          [] r.event.e = "Error" -> Err("Parse")
          [] OTHER -> string_loop(r.rest, content)

OptionString_from_xml(events) == string_loop(events, None)

\* Option<SyPeriod>::from_xml, lines 335-359.  `continue` on a text that is
\* no period skips buf.clear() only
SyPeriods == {"hourly", "daily", "weekly", "monthly", "yearly"}
RECURSIVE period_loop(_, _)
period_loop(events, output) ==
    LET r == read_event(events)
    IN  CASE r.event.e = "Start" ->
               LET sk == SkipThisElement_from_xml(r.rest)
               IN  IF sk.ret = "Err" THEN sk ELSE period_loop(sk.rest, output)
          [] r.event.e = "Text" ->
               period_loop(r.rest, IF r.event.text \in SyPeriods
                                   THEN Some(r.event.text)
                                   ELSE output)
          [] r.event.e \in {"End", "Eof"} -> Ok(output, r.rest)
          [] r.event.e = "Error" -> Err("Parse")
          [] OTHER -> period_loop(r.rest, output)

OptionSyPeriod_from_xml(events) == period_loop(events, None)

\* Item::from_xml, lines 271-316: e.name(), the prefix included
ItemDefault == [title |-> None, link |-> None, id |-> None]
RECURSIVE item_loop(_, _)
item_loop(events, item) ==
    LET r == read_event(events)
        e == r.event
    IN  CASE e.e = "Empty" ->
               IF e.name = QName("", "link")
               THEN LET a == parse_atom_link(e.attributes)
                    IN  IF a.ret = "Err" THEN a
                        ELSE IF a.value # None /\ a.value[1].link = "Alternate"
                        THEN item_loop(r.rest, [item EXCEPT !.link = Some(a.value[1].href)])
                        ELSE item_loop(r.rest, item)
               ELSE item_loop(r.rest, item)
          [] e.e = "Start" ->
               CASE e.name = QName("", "title") ->
                      LET t == OptionString_from_xml(r.rest)
                      IN  IF t.ret = "Err" THEN t
                          ELSE item_loop(t.rest, [item EXCEPT !.title = t.value])
                 [] e.name = QName("", "link") ->
                      LET t == OptionString_from_xml(r.rest)
                      IN  IF t.ret = "Err" THEN t
                          ELSE IF t.value # None
                          THEN item_loop(t.rest, [item EXCEPT !.link = t.value])
                          ELSE LET a == parse_atom_link(e.attributes)
                               IN  IF a.ret = "Err" THEN a
                                   ELSE IF a.value # None /\ a.value[1].link = "Alternate"
                                   THEN item_loop(t.rest,
                                                  [item EXCEPT !.link = Some(a.value[1].href)])
                                   ELSE item_loop(t.rest, item)
                 [] e.name \in {QName("", "id"), QName("", "guid")} ->
                      LET t == OptionString_from_xml(r.rest)
                      IN  IF t.ret = "Err" THEN t
                          ELSE item_loop(t.rest, [item EXCEPT !.id = t.value])
                 [] OTHER ->
                      LET sk == SkipThisElement_from_xml(r.rest)
                      IN  IF sk.ret = "Err" THEN sk ELSE item_loop(sk.rest, item)
          [] e.e \in {"End", "Eof"} -> Ok(item, r.rest)
          [] e.e = "Error" -> Err("Parse")
          [] OTHER -> item_loop(r.rest, item)

Item_from_xml(events) == item_loop(events, ItemDefault)

\* the minutes of a period, lines 245-249
PeriodMinutes ==
    ("hourly" :> 60) @@ ("daily" :> 60 * 24) @@ ("weekly" :> 60 * 24 * 7)
        @@ ("monthly" :> 60 * 24 * 30) @@ ("yearly" :> 60 * 24 * 365)

\* a derivation that lets the syndication elements win over ttl
derive_ttl_over_explicit(rss, sy_period, sy_freq) ==
    IF sy_period = None
    THEN Ok(rss, <<>>)
    ELSE LET freq == IF sy_freq = None THEN 1 ELSE sy_freq[1]
         IN  IF freq = 0
             THEN Panics
             ELSE Ok([rss EXCEPT !.ttl = Some(PeriodMinutes[sy_period[1]] \div freq)], <<>>)

\* lines 242-252: the division of u32 panics on a frequency of 0
derive_ttl(rss, sy_period, sy_freq) ==
    IF rss.ttl # None \/ sy_period = None
    THEN Ok(rss, <<>>)
    ELSE LET freq == IF sy_freq = None THEN 1 ELSE sy_freq[1]
         IN  IF freq = 0
             THEN Panics
             ELSE Ok([rss EXCEPT !.ttl = Some(PeriodMinutes[sy_period[1]] \div freq)], <<>>)

\* what the loop of Rss::from_xml carries from one event to the next
RssDefault == [title |-> "", link |-> "", source |-> None, ttl |-> None, items |-> <<>>]
LoopStart ==
    [rss |-> RssDefault, reading_rss_1_0_head |-> FALSE, sy_period |-> None, sy_freq |-> None]

\* rss.link or rss.source from an atom link, lines 180-184 and 208-212
with_atom_link(st, link) ==
    IF link = None THEN st
    ELSE IF link[1].link = "Alternate" THEN [st EXCEPT !.rss.link = link[1].href]
    ELSE IF link[1].link = "Source" THEN [st EXCEPT !.rss.source = Some(link[1].href)]
    ELSE st

\* Rss::from_xml, lines 176-241: e.local_name(), the prefix dropped
RECURSIVE rss_loop(_, _)
rss_loop(events, st) ==
    LET r == read_event(events)
        e == r.event
    IN  CASE e.e = "Empty" ->
               IF e.name.local = "link"
               THEN LET a == parse_atom_link(e.attributes)
                    IN  IF a.ret = "Err" THEN a
                        ELSE rss_loop(r.rest, with_atom_link(st, a.value))
               ELSE rss_loop(r.rest, st)
          [] e.e = "Start" ->
               CASE e.name.local = "channel" ->
                      rss_loop(r.rest, [st EXCEPT !.reading_rss_1_0_head = TRUE])
                 [] e.name.local = "title" ->
                      LET t == OptionString_from_xml(r.rest)
                      IN  IF t.ret = "Err" THEN t
                          ELSE IF t.value # None
                          THEN rss_loop(t.rest, [st EXCEPT !.rss.title = t.value[1]])
                          ELSE rss_loop(t.rest, st)
                 [] e.name.local = "link" ->
                      LET t == OptionString_from_xml(r.rest)
                      IN  IF t.ret = "Err" THEN t
                          ELSE IF t.value # None
                          THEN rss_loop(t.rest, [st EXCEPT !.rss.link = t.value[1]])
                          ELSE LET a == parse_atom_link(e.attributes)
                               IN  IF a.ret = "Err" THEN a
                                   ELSE rss_loop(t.rest, with_atom_link(st, a.value))
                 [] e.name.local \in {"item", "entry"} ->
                      LET t == Item_from_xml(r.rest)
                      IN  IF t.ret = "Err" THEN t
                          ELSE rss_loop(t.rest, [st EXCEPT !.rss.items = Append(@, t.value)])
                 [] e.name.local = "ttl" ->
                      LET t == OptionU32_from_xml(r.rest)
                      IN  IF t.ret = "Err" THEN t
                          ELSE rss_loop(t.rest, [st EXCEPT !.rss.ttl = t.value])
                 [] e.name.local = "updatePeriod" ->
                      LET t == OptionSyPeriod_from_xml(r.rest)
                      IN  IF t.ret = "Err" THEN t
                          ELSE rss_loop(t.rest, [st EXCEPT !.sy_period = t.value])
                 [] e.name.local = "updateFrequency" ->
                      LET t == OptionU32_from_xml(r.rest)
                      IN  IF t.ret = "Err" THEN t
                          ELSE rss_loop(t.rest, [st EXCEPT !.sy_freq = t.value])
                 [] OTHER ->
                      LET sk == SkipThisElement_from_xml(r.rest)
                      IN  IF sk.ret = "Err" THEN sk ELSE rss_loop(sk.rest, st)
          [] e.e = "End" /\ st.reading_rss_1_0_head ->
               rss_loop(r.rest, [st EXCEPT !.reading_rss_1_0_head = FALSE])
          [] e.e \in {"End", "Eof"} -> Ok(st, r.rest)
          [] e.e = "Error" -> Err("Parse")
          [] OTHER -> rss_loop(r.rest, st)

Rss_from_xml(events) ==
    LET r == rss_loop(events, LoopStart)
    IN  IF r.ret = "Err"
        THEN r
        ELSE LET d == derive_ttl(r.value.rss, r.value.sy_period, r.value.sy_freq)
             IN  IF d.ret = "Ok" THEN Ok(d.value, r.rest) ELSE d

\* parse, lines 364-386: e.name(), the prefix included
FeedElements == {QName("", "channel"), QName("", "feed"), QName("rdf", "RDF")}
RECURSIVE parse(_)
parse(events) ==
    LET r == read_event(events)
        e == r.event
    IN  CASE e.e = "Start" ->
               IF e.name = QName("", "rss") THEN parse(r.rest)
               ELSE IF e.name \in FeedElements THEN Rss_from_xml(r.rest)
               ELSE LET sk == SkipThisElement_from_xml(r.rest)
                    IN  IF sk.ret = "Err" THEN sk ELSE parse(sk.rest)
          [] e.e = "Eof" -> Err("UnexpectedEof(feed)")
          [] e.e = "Error" -> Err("Parse")
          [] OTHER -> parse(r.rest)

\* the documents of SpecXml have at most MaxChildren elements in the channel,
\* and those cut short at most MaxCutChildren
MaxChildren == 3
MaxCutChildren == 1

\* the elements of a channel: what they are for parse, and their events
Child(tag, text, events) == [tag |-> tag, text |-> text, events |-> events]
Element(name, text) == <<Start(name, NoAttributes), Text(text), End>>
Children ==
    {Child("ttl", text, Element(QName("", "ttl"), text)) : text \in {"42", "abc"}}
    \cup {Child("updatePeriod", text, Element(QName("sy", "updatePeriod"), text)) :
            text \in {"hourly", "daily", "fortnightly"}}
    \cup {Child("updateFrequency", text, Element(QName("sy", "updateFrequency"), text)) :
            text \in {"6", "0", "abc"}}
    \cup {Child("title", "T", <<Start(QName("", "title"), NoAttributes), CData("T"), End>>),
          Child("item", "", <<Start(QName("", "item"), NoAttributes)>>
                                \o Element(QName("", "guid"), "x")
                                \o Element(QName("", "ttl"), "1") \o <<End>>),
          Child("link", "", <<Empty(QName("atom", "link"),
                                    [href |-> Some("h"), rel |-> Some("self"),
                                     malformed |-> FALSE])>>),
          Child("unknown", "", <<Start(QName("", "image"), NoAttributes),
                                 Start(QName("", "channel"), NoAttributes), End, End>>),
          Child("error", "", <<Error>>)}

RECURSIVE EventsOf(_)
EventsOf(children) ==
    IF children = <<>> THEN <<>> ELSE Head(children).events \o EventsOf(Tail(children))

Wrappers == {"rss", "feed", "rdf", "none"}

\* the events of a document: RSS 2.0, Atom, RSS 1.0 (the first element in the
\* channel, the others after it), or an rss element without a channel
Document(wrapper, children) ==
    CASE wrapper = "rss" ->
           <<Comment, Start(QName("", "rss"), NoAttributes),
             Start(QName("", "channel"), NoAttributes)>>
               \o EventsOf(children) \o <<End, End>>
      [] wrapper = "feed" ->
           <<Comment, Start(QName("", "feed"), NoAttributes)>>
               \o EventsOf(children) \o <<End>>
      [] wrapper = "rdf" ->
           <<Comment, Start(QName("rdf", "RDF"), NoAttributes),
             Start(QName("", "channel"), NoAttributes)>>
               \o EventsOf(Take(children, 1)) \o <<End>>
               \o (IF children = <<>> THEN <<>> ELSE EventsOf(Tail(children))) \o <<End>>
      [] wrapper = "none" ->
           <<Comment, Start(QName("", "rss"), NoAttributes)>>
               \o EventsOf(children) \o <<End>>

Xml(wrapper, children, events, cut) ==
    [wrapper |-> wrapper, children |-> children, events |-> events, cut |-> cut,
     out |-> None]

InitXml ==
    /\ feeds = create_db.feeds
    /\ subscribers = create_db.subscribers
    /\ last = Call("create")
    /\ disk = NotFollowed
    /\ workers = EmptyBag
    /\ sent = EmptyBag
    /\ ticks = 0
    /\ handlers = NoHandlers
    /\ fix = NoFix
    /\ delivery = NoDelivery
    /\ cmd = NoCommand
    /\ fmt = NoFormat
    /\ http = NoRequest
    /\ split = NoSplit
    /\ scan = None
    /\ \/ \E wrapper \in Wrappers, children \in SeqsUpTo(Children, MaxChildren) :
             xml = Xml(wrapper, children, Document(wrapper, children), FALSE)
       \/ \E wrapper \in Wrappers, children \in SeqsUpTo(Children, MaxCutChildren) :
             \E n \in 0..(Len(Document(wrapper, children)) - 1) :
                xml = Xml(wrapper, children, Take(Document(wrapper, children), n), TRUE)

\* what the caller of parse sees
Returned(r) ==
    CASE r.ret = "Ok" -> [ret |-> "Ok", rss |-> r.value]
      [] r.ret = "Err" -> [ret |-> "Err", error |-> r.error]
      [] OTHER -> [ret |-> "Panic"]

Parse ==
    /\ xml.wrapper # ""
    /\ xml.out = None
    /\ \E r \in {parse(xml.events)} :
          /\ xml' = [xml EXCEPT !.out = Some(Returned(r))]
          /\ last' = [Call("parse") EXCEPT !.ret = Returned(r).ret]
    /\ UNCHANGED <<feeds, subscribers, disk, workers, sent, ticks, split, scan, http, fmt, cmd, delivery, fix, handlers>>

NextXml == Parse

SpecXml == InitXml /\ [][NextXml]_vars

\* the texts of the elements of a document that parse reads as tag, in order
RECURSIVE TextsIn(_, _)
TextsIn(children, tag) ==
    IF children = <<>> THEN <<>>
    ELSE (IF Head(children).tag = tag THEN <<Head(children).text>> ELSE <<>>)
             \o TextsIn(Tail(children), tag)

TextsOf(tag) == TextsIn(xml.children, tag)

\* the text of the last of them
LastText(tag) ==
    LET texts == TextsOf(tag)
    IN  IF texts = <<>> THEN None ELSE Some(texts[Len(texts)])

\* parse has returned a feed for a whole document
ParsedWhole == xml.out # None /\ xml.out[1].ret = "Ok" /\ ~xml.cut

\* C22 (parser totality): parse returns a feed or an error, and never panics.
C22_ParserTotal == xml.out # None => xml.out[1].ret \in {"Ok", "Err"}

\* C23 as claimed (ttl derivation): the ttl of the parsed feed is the value of
\* a ttl element that parsed as an integer when there is one; otherwise the
\* minutes of a recognised sy:updatePeriod divided by the frequency, 1 when
\* there is no sy:updateFrequency; otherwise absent.
C23_TtlDerivation ==
    ParsedWhole =>
        LET ttl == xml.out[1].rss.ttl
            explicit == {t \in Range(TextsOf("ttl")) : t \in DOMAIN Numerals}
            periods == Range(TextsOf("updatePeriod")) \cap SyPeriods
            freqs == {t \in Range(TextsOf("updateFrequency")) :
                         t \in DOMAIN Numerals /\ Numerals[t] > 0}
        IN  IF explicit # {}
            THEN ttl \in {Some(Numerals[t]) : t \in explicit}
            ELSE IF periods = {}
            THEN ttl = None
            ELSE IF TextsOf("updateFrequency") = <<>>
            THEN ttl \in {Some(PeriodMinutes[p]) : p \in periods}
            ELSE freqs # {} =>
                    ttl \in {Some(PeriodMinutes[p] \div Numerals[f]) : p \in periods, f \in freqs}

\* C23 as the code has it: of several ttl, sy:updatePeriod or
\* sy:updateFrequency elements the last one counts, whether it parsed or not;
\* a frequency that is no integer counts as 1, and no feed is returned for a
\* frequency of 0 that would be divided by.
C23_TtlOfLastElements ==
    ParsedWhole =>
        LET ttl == xml.out[1].rss.ttl
            explicit == LastText("ttl")
            period == LastText("updatePeriod")
            freq == LastText("updateFrequency")
            f == IF freq # None /\ freq[1] \in DOMAIN Numerals THEN Numerals[freq[1]] ELSE 1
        IN  IF explicit # None /\ explicit[1] \in DOMAIN Numerals
            THEN ttl = Some(Numerals[explicit[1]])
            ELSE IF period = None \/ period[1] \notin SyPeriods
            THEN ttl = None
            ELSE f # 0 /\ ttl = Some(PeriodMinutes[period[1]] \div f)

\* hourly with a frequency of 6 and then a ttl of 42: the ttl is 42
C23_Witness ==
    /\ ParsedWhole
    /\ LastText("updatePeriod") = Some("hourly")
    /\ LastText("updateFrequency") = Some("6")
    /\ LastText("ttl") = Some("42")
    /\ xml.children[Len(xml.children)].tag = "ttl"
    /\ xml.out[1].rss.ttl = Some(42)

\* hourly with a frequency of 6 and no ttl: the ttl is 10
C23_WitnessDerived ==
    /\ ParsedWhole
    /\ LastText("updatePeriod") = Some("hourly")
    /\ LastText("updateFrequency") = Some("6")
    /\ LastText("ttl") = None
    /\ xml.out[1].rss.ttl = Some(10)

\* the stream has no feed element for parse: an rss element without a channel,
\* whole or cut short, and no error of the reader
NoFeedElement ==
    /\ xml.wrapper = "none"
    /\ \A i \in 1..Len(xml.events) : xml.events[i] # Error

\* C24 (missing feed element): a stream that ends before a channel, feed or
\* rdf:RDF element starts at the top level makes parse return
\* UnexpectedEof("feed"), whatever unknown elements it holds.
C24_MissingFeedElement ==
    (xml.out # None /\ NoFeedElement)
        => xml.out[1] = [ret |-> "Err", error |-> "UnexpectedEof(feed)"]

\* parse has skipped an unknown element that holds a channel, and found no feed
C24_Witness ==
    /\ xml.out # None
    /\ NoFeedElement
    /\ \E i \in 1..Len(xml.children) : xml.children[i].tag = "unknown"
    /\ xml.out[1].ret = "Err"

----------------------------------------------------------------------------
(* fix_relative_url (src/src/feed.rs).  A link is kept as the sequence of   *)
(* its pieces: a scheme with its colon, a '/', a '?', or a run of other     *)
(* characters.                                                             *)

\* the links of SpecFix have at most MaxLinkLen pieces after the scheme
MaxLinkLen == 3

starts_with(str, prefix) ==
    Len(str) >= Len(prefix) /\ SubSeq(str, 1, Len(prefix)) = prefix

\* the pieces of str before the first piece of the set stop, from index i on
RECURSIVE until(_, _, _)
until(str, i, stop) ==
    IF i > Len(str) \/ str[i] \in stop
    THEN <<>>
    ELSE <<str[i]>> \o until(str, i + 1, stop)

\* lines 388-402
url_relative_to_absolute(link, host) ==
    IF starts_with(link, <<"/", "/">>)
    THEN <<"http:">> \o link
    ELSE IF starts_with(link, <<"/">>)
    THEN host \o link
    ELSE link

\* line 406: the match of ^(https?://[^/]+), if any
HOST_captures(rss_link) ==
    IF /\ Len(rss_link) >= 4
       /\ rss_link[1] \in {"http:", "https:"}
       /\ rss_link[2] = "/"
       /\ rss_link[3] = "/"
       /\ rss_link[4] # "/"
    THEN Some(SubSeq(rss_link, 1, 3) \o until(rss_link, 4, {"/"}))
    ELSE None

\* lines 404-422
fix_relative_url(rss, rss_link) ==
    LET rss_host == IF HOST_captures(rss_link) = None
                    THEN rss_link
                    ELSE HOST_captures(rss_link)[1]
        link == IF rss.link \in {<<>>, <<"/">>}
                THEN rss_host
                ELSE url_relative_to_absolute(rss.link, rss_host)
        items == [i \in 1..Len(rss.items) |->
                     IF rss.items[i].link = None
                     THEN rss.items[i]
                     ELSE [rss.items[i] EXCEPT
                              !.link = Some(url_relative_to_absolute(@[1], rss_host))]]
    IN  [rss EXCEPT !.link = link, !.items = items]

\* the links of a feed: relative ones, and an absolute one
FeedLinks ==
    SeqsUpTo({"/", "a"}, 2) \cup {<<"/", "/", "a">>, <<"http:", "/", "/", "b", "/", "a">>}
\* the request URLs: a scheme, "//", and what follows
RequestUrls ==
    {<<scheme, "/", "/">> \o rest :
        scheme \in {"http:", "https:"}, rest \in SeqsUpTo({"/", "a", "?"}, MaxLinkLen)}

InitFix ==
    /\ feeds = create_db.feeds
    /\ subscribers = create_db.subscribers
    /\ last = Call("create")
    /\ disk = NotFollowed
    /\ workers = EmptyBag
    /\ sent = EmptyBag
    /\ ticks = 0
    /\ handlers = NoHandlers
    /\ delivery = NoDelivery
    /\ cmd = NoCommand
    /\ fmt = NoFormat
    /\ http = NoRequest
    /\ split = NoSplit
    /\ scan = None
    /\ xml = NoXml
    /\ \E rss_link \in RequestUrls, link \in FeedLinks,
          links \in SeqsUpTo({None} \cup {Some(l) : l \in FeedLinks}, 1) :
          fix = [rss      |-> Some([title  |-> "T",
                                    link   |-> link,
                                    source |-> None,
                                    ttl    |-> None,
                                    items  |-> [i \in 1..Len(links) |->
                                                   Item(None, links[i], None)]]),
                 rss_link |-> rss_link,
                 out      |-> None]

FixRelativeUrl ==
    /\ fix.rss # None
    /\ fix.out = None
    /\ fix' = [fix EXCEPT !.out = Some(fix_relative_url(fix.rss[1], fix.rss_link))]
    /\ last' = Call("fix_relative_url")
    /\ UNCHANGED <<feeds, subscribers, disk, workers, sent, ticks, split, scan, xml, http,
                   fmt, cmd, delivery, handlers>>

NextFix == FixRelativeUrl

SpecFix == InitFix /\ [][NextFix]_vars

\* the scheme and the authority of a request URL: what stands before the
\* first '/' or '?' after "//"
RequestHost(rss_link) == SubSeq(rss_link, 1, 3) \o until(rss_link, 4, {"/", "?"})

\* the link that the rules of C35 make of a link
Canonical(link, host) ==
    IF starts_with(link, <<"/", "/">>)
    THEN <<"http:">> \o link
    ELSE IF starts_with(link, <<"/">>)
    THEN host \o link
    ELSE link

\* C35 (URL canonicalisation): for a request URL that begins with http:// or
\* https://, fix_relative_url makes the request host (scheme and authority)
\* of an empty or "/" home link, prefixes "http:" to a link that starts with
\* "//" and the request host to a link that starts with one "/", and leaves
\* every other link and every other field as it was; no link of the result
\* starts with "/", and fix_relative_url applied to the result changes nothing.
C35_UrlCanonicalisation ==
    fix.out # None =>
        LET rss == fix.rss[1]
            out == fix.out[1]
            host == RequestHost(fix.rss_link)
        IN  /\ out.link = IF rss.link \in {<<>>, <<"/">>}
                          THEN host
                          ELSE Canonical(rss.link, host)
            /\ Len(out.items) = Len(rss.items)
            /\ \A i \in 1..Len(rss.items) :
                  out.items[i] =
                      IF rss.items[i].link = None
                      THEN rss.items[i]
                      ELSE [rss.items[i] EXCEPT !.link = Some(Canonical(@[1], host))]
            /\ [out EXCEPT !.link = <<>>, !.items = <<>>]
                   = [rss EXCEPT !.link = <<>>, !.items = <<>>]
            /\ ~starts_with(out.link, <<"/">>)
            /\ \A i \in 1..Len(out.items) :
                  out.items[i].link # None => ~starts_with(out.items[i].link[1], <<"/">>)
            /\ fix_relative_url(out, fix.rss_link) = out

----------------------------------------------------------------------------
(* The HTTP client: pull_feed (src/src/client.rs).  The body of a response *)
(* is kept as the len() of its chunks.                                     *)

\* the responses of SpecHttp have at most MaxChunks chunks
MaxChunks == 3

\* line 57: url.ends_with(".json"), the url kept as its pieces
ends_with_json(url) == url # <<>> /\ url[Len(url)] = ".json"

\* lines 114-124: the value of Content-Type, kept as its pieces between ';',
\* trimmed; a value with a byte that is no visible ASCII has no to_str()
content_type_is_json(value) ==
    IF "non-ascii" \in Range(value) THEN FALSE ELSE "application/json" \in Range(value)

RECURSIVE Sum(_)
Sum(sizes) == IF sizes = <<>> THEN 0 ELSE Head(sizes) + Sum(Tail(sizes))

\* resp.json(): the whole body is read, then decoded; an error of either is a
\* reqwest::Error
resp_json(resp) ==
    IF resp.broken
    THEN [ret |-> "Network", read |-> 0]
    ELSE IF ~resp.valid
    THEN [ret |-> "Network", read |-> Sum(resp.chunks)]
    ELSE [ret |-> "Ok", read |-> Sum(resp.chunks)]

\* lines 64-72: the loop over resp.chunk(), then feed::parse
RECURSIVE read_chunks(_, _, _, _, _)
read_chunks(chunks, broken, buf_len, size_limit, valid) ==
    IF chunks = <<>>
    THEN IF broken THEN [ret |-> "Network", read |-> buf_len]
         ELSE IF valid THEN [ret |-> "Ok", read |-> buf_len]
         ELSE [ret |-> "Parsing", read |-> buf_len]
    ELSE IF size_limit # 0 /\ buf_len + Head(chunks) > size_limit
    THEN [ret |-> "TooLarge", read |-> buf_len]
    ELSE read_chunks(Tail(chunks), broken, buf_len + Head(chunks), size_limit, valid)

\* lines 39-76
pull_feed(url, resp, size_limit) ==
    LET unlimited == size_limit = 0
    IN  IF resp.status # "success"
        THEN [ret |-> "Network", read |-> 0]
        ELSE IF resp.content_length # None /\ ~unlimited
                /\ resp.content_length[1] > size_limit
        THEN [ret |-> "TooLarge", read |-> 0]
        ELSE IF ends_with_json(url)
                \/ (resp.content_type # None /\ content_type_is_json(resp.content_type[1]))
        THEN resp_json(resp)
        ELSE read_chunks(resp.chunks, resp.broken, 0, size_limit, resp.valid)

ChunkLens == {1, 2}
SizeLimits == {0, 2}
Urls == {<<"http://", "h", "/feed", ".json">>, <<"http://", "h", "/feed", ".xml">>}
ContentTypes ==
    {None, Some(<<"application/json", "charset=utf-8">>), Some(<<"text/xml">>),
     Some(<<"application/json", "non-ascii">>)}

\* the responses of a server: the chunks of the body, after which the
\* connection may break; with a Content-Length the body is as long as it
\* says unless the connection breaks
Responses ==
    {r \in [status : {"success", "error"},
            content_length : {None} \cup {Some(n) : n \in 0..(2 * MaxChunks)},
            content_type : ContentTypes,
            chunks : SeqsUpTo(ChunkLens, MaxChunks),
            broken : BOOLEAN,
            valid : BOOLEAN] :
        /\ (r.content_length # None /\ ~r.broken) => r.content_length[1] = Sum(r.chunks)
        /\ (r.content_length # None /\ r.broken) => r.content_length[1] > Sum(r.chunks)
        /\ r.status = "error" => (r.chunks = <<>> /\ r.valid /\ ~r.broken)}

InitHttp ==
    /\ feeds = create_db.feeds
    /\ subscribers = create_db.subscribers
    /\ last = Call("create")
    /\ disk = NotFollowed
    /\ workers = EmptyBag
    /\ sent = EmptyBag
    /\ ticks = 0
    /\ handlers = NoHandlers
    /\ fix = NoFix
    /\ delivery = NoDelivery
    /\ cmd = NoCommand
    /\ fmt = NoFormat
    /\ split = NoSplit
    /\ scan = None
    /\ xml = NoXml
    /\ \E url \in Urls, resp \in Responses, size_limit \in SizeLimits :
          http = [url |-> url, size_limit |-> size_limit, resp |-> Some(resp), out |-> None]

PullFeed ==
    /\ http.resp # None
    /\ http.out = None
    /\ http' = [http EXCEPT !.out = Some(pull_feed(http.url, http.resp[1], http.size_limit))]
    /\ last' = [Call("pull_feed") EXCEPT
                   !.ret = pull_feed(http.url, http.resp[1], http.size_limit).ret]
    /\ UNCHANGED <<feeds, subscribers, disk, workers, sent, ticks, split, scan, xml, fmt, cmd, delivery, fix, handlers>>

NextHttp == PullFeed

SpecHttp == InitHttp /\ [][NextHttp]_vars

\* the bytes of the body that the server sends
BodyLen == Sum(http.resp[1].chunks)

\* C25 (feed size limit): with a limit other than 0, a Content-Length above
\* the limit is refused with TooLarge before anything of the body is read, and
\* no feed is returned from a body longer than the limit; with a limit of 0
\* nothing is refused as TooLarge.
C25_FeedSizeLimit ==
    http.out # None =>
        LET resp == http.resp[1]
            out == http.out[1]
        IN  /\ (/\ http.size_limit # 0
                /\ resp.status = "success"
                /\ resp.content_length # None
                /\ resp.content_length[1] > http.size_limit)
               => (out.ret = "TooLarge" /\ out.read = 0)
            /\ (http.size_limit # 0 /\ out.ret = "Ok") => BodyLen <= http.size_limit
            /\ http.size_limit = 0 => out.ret # "TooLarge"

\* line 57: the response is decoded as a JSON Feed document
TreatedAsJson ==
    \/ ends_with_json(http.url)
    \/ (http.resp[1].content_type # None
        /\ content_type_is_json(http.resp[1].content_type[1]))

\* C34 (malformed JSON is a parse error): when the response is decoded as
\* JSON Feed, its body has arrived whole and is within the limit by its
\* Content-Length, and the body is no valid JSON Feed document, pull_feed fails
\* with Parsing.
C34_MalformedJsonIsParsing ==
    http.out # None =>
        LET resp == http.resp[1]
        IN  (/\ TreatedAsJson
             /\ resp.status = "success"
             /\ ~resp.broken
             /\ ~resp.valid
             /\ ~(http.size_limit # 0 /\ resp.content_length # None
                    /\ resp.content_length[1] > http.size_limit))
            => http.out[1].ret = "Parsing"

----------------------------------------------------------------------------
(* format_byte_size (src/src/client.rs).  A u64 and the f64 made from it  *)
(* are kept as their digits to the base 1024, lowest first: the value of  *)
(* d is d[1] + d[2] * 1024 + ... + d[7] * 1024^6.  The text returned is   *)
(* kept as the number printed and the unit after it.                      *)

BASE == 1024
SIZES == <<"B", "kiB", "MiB", "GiB", "TiB", "PiB", "EiB">>

\* a u64 has 7 digits to the base 1024, the highest at most 15
U64Digits == 7
\* an f64 keeps 53 bits of a number
MANTISSA_DIGITS == 53
\* (x.ln() / BASE.ln()) is a whole number already for x this close below a
\* power of 1024: closer than 1 part in 2^LnSlackBits
LnSlackBits == 47

IsZero(d) == \A k \in DOMAIN d : d[k] = 0

\* the largest i with 1024^i <= d, for d other than 0
ilog(d) == CHOOSE i \in 0..(Len(d) - 1) :
               d[i + 1] # 0 /\ \A m \in (i + 2)..Len(d) : d[m] = 0

RECURSIVE BitLen(_)
BitLen(n) == IF n = 0 THEN 0 ELSE 1 + BitLen(n \div 2)

\* digits above 1023 carried into the next one; the highest digit keeps its
\* carry (2^64 is an f64)
RECURSIVE carry_from(_, _)
carry_from(d, k) ==
    IF k >= Len(d) THEN d
    ELSE IF d[k] >= BASE
    THEN carry_from([d EXCEPT ![k] = @ - BASE, ![k + 1] = @ + 1], k + 1)
    ELSE carry_from(d, k + 1)

\* line 133, `bytes as f64`: the nearest f64, a tie to the even one.  At most
\* 11 bits are dropped, all of them in the two lowest digits.
to_f64(d) ==
    IF IsZero(d) THEN d
    ELSE LET nbits == 10 * ilog(d) + BitLen(d[ilog(d) + 1])
             drop == nbits - MANTISSA_DIGITS
         IN  IF drop <= 0 THEN d
             ELSE LET low == d[2] * BASE + d[1]
                      rem == low % (2 ^ drop)
                      half == 2 ^ (drop - 1)
                      odd == (low \div (2 ^ drop)) % 2 = 1
                      up == rem > half \/ (rem = half /\ odd)
                      rounded == (low - rem) + (IF up THEN 2 ^ drop ELSE 0)
                  IN  carry_from([d EXCEPT ![1] = rounded % BASE,
                                           ![2] = rounded \div BASE], 2)

\* x is below the next power of 1024 by at most 1 part in 2^LnSlackBits
NearNextPower(x) ==
    LET j == ilog(x)
    IN  /\ 10 * (j + 1) >= LnSlackBits
        /\ j + 1 < Len(x)
        /\ \A m \in 3..(j + 1) : x[m] = BASE - 1
        /\ x[2] * BASE + x[1] >= BASE * BASE - 2 ^ (10 * (j + 1) - LnSlackBits)

\* line 143, (bytes.ln() / BASE.ln()).floor(): the precision of ln is not
\* specified, so just below a power of 1024 the quotient may already be the
\* next whole number
LnFloor(x) == {ilog(x)} \cup (IF NearNextPower(x) THEN {ilog(x) + 1} ELSE {})

\* a rounding that cuts the fraction off
fmt_0_truncates(x, i) == x[i + 1]

\* line 147, format!("{:.0}", bytes / divisor): x / 1024^i has no rounding
\* (a division by a power of 2), and is printed rounded to a whole number,
\* a tie to the even one
fmt_0(x, i) ==
    LET t == x[i + 1]
        gt_half == i > 0 /\ (\/ x[i] > BASE \div 2
                             \/ (x[i] = BASE \div 2 /\ \E m \in 1..(i - 1) : x[m] # 0))
        eq_half == i > 0 /\ x[i] = BASE \div 2 /\ \A m \in 1..(i - 1) : x[m] = 0
    IN  IF gt_half \/ (eq_half /\ t % 2 = 1) THEN t + 1 ELSE t

\* lines 127-148; i is the value that the quotient of the logarithms came to
format_byte_size(bytes, i) ==
    IF IsZero(bytes) THEN [n |-> 0, unit |-> "B"]
    ELSE [n |-> fmt_0(to_f64(bytes), i), unit |-> SIZES[i + 1]]

DigitValues == {0, 1, 10, BASE \div 2 - 1, BASE \div 2, BASE - 1}
TopDigitValues == {0, 1, 15}
U64s == {d \in [1..U64Digits -> DigitValues \cup TopDigitValues] :
            /\ d[U64Digits] \in TopDigitValues
            /\ \A k \in 1..(U64Digits - 1) : d[k] \in DigitValues}

InitFormat ==
    /\ feeds = create_db.feeds
    /\ subscribers = create_db.subscribers
    /\ last = Call("create")
    /\ disk = NotFollowed
    /\ workers = EmptyBag
    /\ sent = EmptyBag
    /\ ticks = 0
    /\ handlers = NoHandlers
    /\ fix = NoFix
    /\ delivery = NoDelivery
    /\ cmd = NoCommand
    /\ split = NoSplit
    /\ scan = None
    /\ xml = NoXml
    /\ http = NoRequest
    /\ \E bytes \in U64s : fmt = [bytes |-> bytes, out |-> None]

FormatByteSize ==
    /\ fmt.bytes # <<>>
    /\ fmt.out = None
    /\ \E i \in (IF IsZero(fmt.bytes) THEN {0} ELSE LnFloor(to_f64(fmt.bytes))) :
          fmt' = [fmt EXCEPT !.out = Some(format_byte_size(fmt.bytes, i))]
    /\ last' = Call("format_byte_size")
    /\ UNCHANGED <<feeds, subscribers, disk, workers, sent, ticks, split, scan, xml, http, cmd, delivery, fix, handlers>>

NextFormat == FormatByteSize

SpecFormat == InitFormat /\ [][NextFormat]_vars

\* bytes / 1024^i rounded to a whole number, without loss: a tie may go
\* either way
RoundedExactly(bytes, i) ==
    LET t == bytes[i + 1]
        ge_half == i > 0 /\ bytes[i] >= BASE \div 2
        le_half == i = 0 \/ bytes[i] < BASE \div 2
                         \/ (bytes[i] = BASE \div 2 /\ \A m \in 1..(i - 1) : bytes[m] = 0)
    IN  (IF ge_half THEN {t + 1} ELSE {}) \cup (IF le_half THEN {t} ELSE {})

\* C26 (format_byte_size): "0B" for 0; for any other u64 the number printed
\* is bytes / 1024^i rounded to a whole number and the unit is the i-th of
\* SIZES, i the largest exponent with 1024^i <= bytes; the index of the unit
\* is never above 6.
C26_FormatByteSize ==
    fmt.out # None =>
        IF IsZero(fmt.bytes)
        THEN fmt.out[1] = [n |-> 0, unit |-> "B"]
        ELSE /\ fmt.out[1].unit = SIZES[ilog(fmt.bytes) + 1]
             /\ fmt.out[1].n \in RoundedExactly(fmt.bytes, ilog(fmt.bytes))
             /\ ilog(fmt.bytes) <= 6

\* half-way cases to the even number
RoundedHalfEven(bytes, i) ==
    {n \in RoundedExactly(bytes, i) :
        (i > 0 /\ bytes[i] = BASE \div 2 /\ \A m \in 1..(i - 1) : bytes[m] = 0)
            => n % 2 = 0}

\* bytes / 1024^i rounded to a whole number, where the fraction may be taken
\* for one half when it is within 1/1024 of it
RoundedLoosely(bytes, i) ==
    LET t == bytes[i + 1]
    IN  (IF i > 0 /\ bytes[i] >= BASE \div 2 - 1 THEN {t + 1} ELSE {})
            \cup (IF i = 0 \/ bytes[i] <= BASE \div 2 THEN {t} ELSE {})

\* bytes is less than 2^20 below a power of 1024 that is 2^50 or more
JustBelowPower(bytes) ==
    /\ ilog(bytes) >= 4
    /\ ilog(bytes) + 1 < Len(bytes)
    /\ \A m \in 3..(ilog(bytes) + 1) : bytes[m] = BASE - 1

\* C26, amended: "0B" for 0 and never a unit above the last of SIZES.  With
\* i the largest exponent with 1024^i <= bytes: a number that is not within
\* 2^20 of 2^50 or above is printed as bytes / 1024^i rounded to a whole
\* number (a tie to the even one) with the i-th unit; a larger one is printed
\* with the i-th unit and that quotient rounded, where a fraction within
\* 1/1024 of one half may go either way, or, when it is less than 2^20 below
\* 1024^(i+1), as 1 with the next unit.
C26_FormatByteSizeOfDouble ==
    fmt.out # None =>
        IF IsZero(fmt.bytes)
        THEN fmt.out[1] = [n |-> 0, unit |-> "B"]
        ELSE LET i == ilog(fmt.bytes)
                 n == fmt.out[1].n
             IN  /\ fmt.out[1].unit \in Range(SIZES)
                 /\ IF i < 4 \/ (i = 4 /\ ~JustBelowPower(fmt.bytes))
                    THEN /\ fmt.out[1].unit = SIZES[i + 1]
                         /\ n \in RoundedHalfEven(fmt.bytes, i)
                    ELSE \/ /\ fmt.out[1].unit = SIZES[i + 1]
                            /\ n \in RoundedLoosely(fmt.bytes, i)
                         \/ /\ JustBelowPower(fmt.bytes)
                            /\ fmt.out[1].unit = SIZES[i + 2]
                            /\ n = 1

\* u64::MAX is printed as 16EiB
C26_Witness ==
    /\ fmt.bytes = [k \in 1..U64Digits |-> IF k = U64Digits THEN 15 ELSE BASE - 1]
    /\ fmt.out = Some([n |-> 16, unit |-> "EiB"])

\* 1034 is printed as 1kiB
C26_WitnessKiB ==
    /\ fmt.bytes = [k \in 1..U64Digits |-> IF k = 1 THEN 10 ELSE IF k = 2 THEN 1 ELSE 0]
    /\ fmt.out = Some([n |-> 1, unit |-> "kiB"])

\* 2^60 - 1 is the f64 2^60 and is printed as 1EiB
C26_WitnessRounded ==
    /\ fmt.bytes = [k \in 1..U64Digits |-> IF k = U64Digits THEN 0 ELSE BASE - 1]
    /\ fmt.out = Some([n |-> 1, unit |-> "EiB"])
    /\ to_f64(fmt.bytes) = [k \in 1..U64Digits |-> IF k = U64Digits THEN 1 ELSE 0]

----------------------------------------------------------------------------
(* The commands (src/src/commands.rs, src/src/commands/).  A command goes *)
(* through three stages: the event loop receives it, check_command lets   *)
(* it through or not, the handler of the command runs.  The replies are   *)
(* kept as the names of their texts.                                      *)

\* the id of the bot's own user
BOT_ID == 0
UserIds == Subscribers
Commands == {"start", "rss", "sub", "unsub", "export"}

User(id) == Some([kind |-> "user", id |-> id])
SenderChat(id) == Some([kind |-> "chat", id |-> id])

\* an answer of Telegram: an error (400, or another) or a value
Answer(value) == [error |-> "", value |-> value]
Failed(error) == [error |-> error, value |-> {}]

\* a rule that lets every sender chat through
is_from_bot_admin_or_chat(from, admins) ==
    IF from = None THEN FALSE
    ELSE from[1].kind = "chat" \/ from[1].id \in admins

\* lines 82-94; None is a message without a sender
is_from_bot_admin(from, admins) ==
    IF from = None THEN FALSE ELSE from[1].id \in admins

\* lines 96-109; admins is the answer to get_chat_administrators(cmd.chat.id)
is_from_chat_admin(c, admins) ==
    IF c.from = None THEN FALSE
    ELSE IF c.from[1].kind = "user"
    THEN admins.error = "" /\ c.from[1].id \in admins.value
    ELSE c.from[1].id = c.chat.id

\* the reply of check_command, whose failure to send is ignored
Ignored(msg, delivered) == IF delivered THEN <<msg>> ELSE <<>>

\* lines 43-80
check_command(opt, c, admins, delivered) ==
    IF opt.admin # {} /\ ~is_from_bot_admin(c.from, opt.admin)
    THEN [pass |-> FALSE, replies |-> <<>>]
    ELSE IF c.chat.kind = "channel"
    THEN [pass |-> FALSE, replies |-> Ignored("commands_in_private_channel", delivered)]
    ELSE IF c.chat.kind \in {"group", "supergroup"} /\ opt.restricted
    THEN IF is_from_chat_admin(c, admins)
         THEN [pass |-> TRUE, replies |-> <<>>]
         ELSE [pass |-> FALSE, replies |-> Ignored("group_admin_only_command", delivered)]
    ELSE [pass |-> TRUE, replies |-> <<>>]

\* what a handler has come to: its replies, the subscribers whose entries it
\* read, the store, the subscriber it acts for
Outcome(db, replies, reads, target, ret) ==
    [db |-> db, replies |-> replies, reads |-> reads, target |-> target, ret |-> ret]

\* update_response(..).await?: the send numbered fails_at fails, and the
\* handler returns the error.  Then(replies) is the rest of the handler.
Respond(o, msg, fails_at, Then(_)) ==
    IF Len(o.replies) + 1 = fails_at
    THEN [o EXCEPT !.ret = "MethodCall"]
    ELSE Then([o EXCEPT !.replies = Append(@, msg)])

Return(o) == o

\* a check that takes the word of the user
check_channel_permission_of_anybody(db, c, tg) ==
    IF tg.channel.error # ""
    THEN Outcome(db, <<>>, {}, None, "Ok")
    ELSE Outcome(db, <<>>, {}, Some(tg.channel.value.id), "Ok")

\* lines 153-241: target is Some(chat.id) or None
check_channel_permission(db, c, tg) ==
    LET o == Outcome(db, <<>>, {}, None, "Ok")
    IN  IF c.from = None THEN [o EXCEPT !.ret = "Panic"]
        ELSE IF c.from[1].kind = "chat" THEN o
        ELSE
        LET user_id == c.from[1].id
            Admins(o1) ==
                IF tg.channel_admins.error = "400"
                THEN Respond(o1, "unable_to_get_channel_info", tg.fails_at, Return)
                ELSE IF tg.channel_admins.error # ""
                THEN [o1 EXCEPT !.ret = "MethodCall"]
                ELSE IF user_id \notin tg.channel_admins.value
                THEN Respond(o1, "channel_admin_only_command", tg.fails_at, Return)
                ELSE IF BOT_ID \notin tg.channel_admins.value
                THEN Respond(o1, "make_bot_admin", tg.fails_at, Return)
                ELSE [o1 EXCEPT !.target = Some(tg.channel.value.id)]
            Chat(o1) ==
                IF tg.channel.error = "400"
                THEN Respond(o1, "unable_to_find_target_channel", tg.fails_at, Return)
                ELSE IF tg.channel.error # ""
                THEN [o1 EXCEPT !.ret = "MethodCall"]
                ELSE IF tg.channel.value.kind # "channel"
                THEN Respond(o1, "target_must_be_a_channel", tg.fails_at, Return)
                ELSE Admins(o1)
        IN  Respond(o, "verifying_channel", tg.fails_at, Chat)

\* the subscriber that a handler acts for: the chat of the command, or the
\* channel named in it when check_channel_permission allows.  Then(o) is the
\* rest of the handler.
ForTarget(db, c, tg, with_channel, Then(_)) ==
    IF ~with_channel
    THEN Then(Outcome(db, <<>>, {}, Some(c.chat.id), "Ok"))
    ELSE LET p == check_channel_permission(db, c, tg)
         IN  IF p.ret # "Ok" \/ p.target = None THEN p ELSE Then(p)

\* commands/start.rs
start(db, c, tg) ==
    Respond(Outcome(db, <<>>, {}, None, "Ok"), "start_message", tg.fails_at, Return)

\* commands/sub.rs; the save of the store succeeds
sub(db, c, tg) ==
    LET Body(o) ==
            LET target_id == o.target[1]
                feed_url == c.args[Len(c.args)]
                o1 == [o EXCEPT !.reads = @ \cup {target_id}]
                Pulled(o2) ==
                    IF tg.pulled = None
                    THEN Respond(o2, "subscription_failed", tg.fails_at, Return)
                    ELSE LET r == subscribe(o2.db, target_id, feed_url, tg.pulled[1], "ok")
                             o3 == [o2 EXCEPT !.db = r.db]
                         IN  IF r.ret = "Ok"
                             THEN Respond(o3, "subscription_succeeded", tg.fails_at, Return)
                             ELSE Respond(o3, "subscribed_to_rss", tg.fails_at, Return)
            IN  IF is_subscribed(o.db, target_id, feed_url)
                THEN Respond(o1, "subscribed_to_rss", tg.fails_at, Return)
                ELSE Respond(o1, "processing_please_wait", tg.fails_at, Pulled)
    IN  IF Len(c.args) \notin {1, 2}
        THEN Respond(Outcome(db, <<>>, {}, None, "Ok"), "sub_how_to_use", tg.fails_at, Return)
        ELSE ForTarget(db, c, tg, Len(c.args) = 2, Body)

\* commands/unsub.rs; the save of the store succeeds
unsub(db, c, tg) ==
    LET Body(o) ==
            LET target_id == o.target[1]
                feed_url == c.args[Len(c.args)]
                r == unsubscribe(o.db, target_id, feed_url, "ok")
                o1 == [o EXCEPT !.db = r.db, !.reads = @ \cup {target_id}]
            IN  IF r.feed # None
                THEN Respond(o1, "unsubscription_succeeded", tg.fails_at, Return)
                ELSE Respond(o1, "unsubscribed_from_rss", tg.fails_at, Return)
    IN  IF Len(c.args) \notin {1, 2}
        THEN Respond(Outcome(db, <<>>, {}, None, "Ok"), "unsub_how_to_use", tg.fails_at, Return)
        ELSE ForTarget(db, c, tg, Len(c.args) = 2, Body)

\* commands/rss.rs: the list of the subscriber, the first message of it
rss(db, c, tg) ==
    LET Body(o) ==
            LET target_id == o.target[1]
                o1 == [o EXCEPT !.reads = @ \cup {target_id}]
            IN  IF get_subscribed_feeds_panics(o.db, target_id)
                THEN [o1 EXCEPT !.ret = "Panic"]
                ELSE IF get_subscribed_feeds(o.db, target_id) = None
                THEN Respond(o1, "subscription_list_empty", tg.fails_at, Return)
                ELSE Respond(o1, "subscription_list", tg.fails_at, Return)
    IN  ForTarget(db, c, tg, c.args # <<>>, Body)

\* commands/export.rs
export(db, c, tg) ==
    LET Body(o) ==
            LET target_id == o.target[1]
                o1 == [o EXCEPT !.reads = @ \cup {target_id}]
            IN  IF get_subscribed_feeds_panics(o.db, target_id)
                THEN [o1 EXCEPT !.ret = "Panic"]
                ELSE IF get_subscribed_feeds(o.db, target_id) = None
                THEN Respond(o1, "subscription_list_empty", tg.fails_at, Return)
                ELSE Respond(o1, "feeds.opml", tg.fails_at, Return)
    IN  ForTarget(db, c, tg, c.args # <<>>, Body)

\* the sends of one handler: at most MaxReplies
MaxReplies == 3

\* the private chats of the users, and one chat of every other kind
Chats ==
    {[id |-> id, kind |-> "private"] : id \in UserIds}
        \cup {[id |-> NumSubscribers, kind |-> kind] : kind \in ChatKinds \ {"private"}}
Senders == {None} \cup {User(id) : id \in UserIds} \cup {SenderChat(id) : id \in Subscribers}
Args == {<<>>, <<"a">>, <<"@channel", "a">>}
AdminLists == {{}, {1}}
PulledFeed == [title |-> "T", items |-> <<>>]

\* what Telegram and the feed's server answer to one handler
Answers ==
    [channel : {Failed("400"), Failed("network")}
                   \cup {Answer(ch) : ch \in [id : Subscribers, kind : {"channel", "supergroup"}]},
     channel_admins : {Failed("400"), Failed("network")}
                          \cup {Answer(a) : a \in SUBSET {BOT_ID, 1}},
     pulled : {None, Some(PulledFeed)},
     fails_at : 0..MaxReplies]

\* the stores that the commands start from: nobody subscribed, or chat 2
StoresOfCommands == {create_db, subscribe(create_db, 2, "a", PulledFeed, "ok").db}

InitCommands ==
    /\ \E db \in StoresOfCommands :
          /\ feeds = db.feeds
          /\ subscribers = db.subscribers
    /\ last = Call("create")
    /\ disk = NotFollowed
    /\ workers = EmptyBag
    /\ sent = EmptyBag
    /\ ticks = 0
    /\ handlers = NoHandlers
    /\ fix = NoFix
    /\ delivery = NoDelivery
    /\ split = NoSplit
    /\ scan = None
    /\ xml = NoXml
    /\ http = NoRequest
    /\ fmt = NoFormat
    /\ \E admin \in AdminLists, restricted \in BOOLEAN :
          cmd = [NoCommand EXCEPT !.opt = [admin |-> admin, restricted |-> restricted]]

\* lines 14-33, the closure h of add_handlers!: the event loop hands it a
\* command
Receive(name, chat, from, args) ==
    /\ cmd.stage = "idle"
    /\ cmd' = [cmd EXCEPT !.stage = "received", !.name = name, !.chat = chat,
                          !.from = from, !.args = args]
    /\ UNCHANGED <<feeds, subscribers, disk, workers, sent, ticks, split, scan, xml, http, fmt, last, delivery, fix, handlers>>

\* line 23: check_command(&opt, &cmd).await
CheckCommand(admins, sends) ==
    /\ cmd.stage = "received"
    /\ LET r == check_command(cmd.opt, cmd, admins, sends)
       IN  cmd' = [cmd EXCEPT !.stage = IF r.pass THEN "handler" ELSE "done",
                              !.replies = r.replies]
    /\ UNCHANGED <<feeds, subscribers, disk, workers, sent, ticks, split, scan, xml, http, fmt, last, delivery, fix, handlers>>

Handler(name, db, c, tg) ==
    CASE name = "start" -> start(db, c, tg)
      [] name = "rss" -> rss(db, c, tg)
      [] name = "sub" -> sub(db, c, tg)
      [] name = "unsub" -> unsub(db, c, tg)
      [] name = "export" -> export(db, c, tg)

\* line 24: self::$cmd::$cmd(env, cmd).await, its error printed
Handle(tg) ==
    /\ cmd.stage = "handler"
    /\ LET o == Handler(cmd.name, DB, cmd, tg)
       IN  /\ cmd' = [cmd EXCEPT !.stage = "done", !.replies = o.replies, !.reads = o.reads,
                                 !.target = o.target, !.ret = o.ret,
                                 !.channel = Some([chat |-> tg.channel,
                                                   admins |-> tg.channel_admins])]
           /\ feeds' = o.db.feeds
           /\ subscribers' = o.db.subscribers
           /\ last' = Call(cmd.name)
    /\ UNCHANGED <<disk, workers, sent, ticks, split, scan, xml, http, fmt, delivery, fix, handlers>>

NextCommands ==
    \/ \E name \in Commands, chat \in Chats, from \in Senders, args \in Args :
          Receive(name, chat, from, args)
    \/ \E admins \in {Failed("network")} \cup {Answer(a) : a \in SUBSET UserIds},
          sends \in BOOLEAN :
          CheckCommand(admins, sends)
    \/ \E tg \in Answers : Handle(tg)

SpecCommands == InitCommands /\ [][NextCommands]_vars

\* the command names a channel to act for
WithChannel(c) ==
    \/ c.name \in {"sub", "unsub"} /\ Len(c.args) = 2
    \/ c.name \in {"rss", "export"} /\ c.args # <<>>

\* the entries of the store that are not of subscriber s stay as they are
OnlyTouches(s) ==
    /\ \A t \in (DOMAIN subscribers \cup DOMAIN subscribers') \ {s} :
          /\ t \in DOMAIN subscribers /\ t \in DOMAIN subscribers'
          /\ subscribers'[t] = subscribers[t]
    /\ \A id \in DOMAIN feeds \cup DOMAIN feeds' :
          LET Others(fs) == IF id \in DOMAIN fs THEN fs[id].subscribers \ {s} ELSE {}
          IN  Others(feeds') = Others(feeds)

\* C27 (admin gate): with a list of admins that is not empty, a command
\* whose sender (a user, a sender chat, or none) is not in the list never
\* reaches its handler: the store is neither read nor changed and nothing is
\* replied, whatever the command and the kind of the chat.
C27_AdminGate ==
    [][ (/\ cmd'.stage # "idle"
         /\ cmd'.opt.admin # {}
         /\ (cmd'.from = None \/ cmd'.from[1].id \notin cmd'.opt.admin))
        => /\ cmd'.stage \in {"received", "done"}
           /\ StoreUnchanged
           /\ last' = last
           /\ cmd'.reads = {}
           /\ cmd'.replies = <<>> ]_vars

\* /unsub a from user 2 in the group that is subscribed to a, the admin
\* being user 1, is dropped
C27_Witness ==
    /\ cmd.stage = "done"
    /\ cmd.opt.admin = {1}
    /\ cmd.from = User(2)
    /\ cmd.name = "unsub"
    /\ cmd.args = <<"a">>
    /\ cmd.chat = [id |-> 2, kind |-> "group"]
    /\ is_subscribed(DB, 2, "a")
    /\ cmd.replies = <<>>

\* the channel is one, and the user of the command and the bot are among its
\* administrators
Permitted(c) ==
    /\ c.channel # None
    /\ c.from # None
    /\ c.from[1].kind = "user"
    /\ c.channel[1].chat.error = ""
    /\ c.channel[1].chat.value.kind = "channel"
    /\ c.channel[1].admins.error = ""
    /\ c.from[1].id \in c.channel[1].admins.value
    /\ BOT_ID \in c.channel[1].admins.value

\* C28 (channel permission): sub, unsub, rss and export with a channel
\* operand act for the channel only if the target is a channel and the user
\* of the command and the bot are both among its administrators; otherwise
\* they return without reading or changing the store.
C28_ChannelPermission ==
    [][ (cmd.stage = "handler" /\ cmd'.stage = "done" /\ WithChannel(cmd))
        => IF Permitted(cmd')
           THEN /\ cmd'.reads \subseteq {cmd'.channel[1].chat.value.id}
                /\ OnlyTouches(cmd'.channel[1].chat.value.id)
           ELSE /\ StoreUnchanged
                /\ cmd'.reads = {} ]_vars

\* user 1, an administrator of channel 1 as the bot is, subscribes the
\* channel from chat 2
C28_Witness ==
    /\ cmd.stage = "done"
    /\ cmd.name = "sub"
    /\ Len(cmd.args) = 2
    /\ cmd.chat.id = 2
    /\ cmd.from = User(1)
    /\ Permitted(cmd)
    /\ cmd.target = Some(1)
    /\ is_subscribed(DB, 1, "a")
    /\ cmd.replies = <<"verifying_channel", "processing_please_wait", "subscription_succeeded">>

\* the bot is no administrator of the channel: nothing is read
C28_WitnessRefused ==
    /\ cmd.stage = "done"
    /\ cmd.name = "unsub"
    /\ Len(cmd.args) = 2
    /\ cmd.channel # None
    /\ cmd.channel[1].chat = Answer([id |-> 2, kind |-> "channel"])
    /\ cmd.channel[1].admins = Answer({1})
    /\ cmd.from = User(1)
    /\ cmd.replies = <<"verifying_channel", "make_bot_admin">>
    /\ is_subscribed(DB, 2, "a")
    /\ cmd.reads = {}

\* C30 (snapshot lag, I4): between the operations of the store the file is
\* the store as it was at some earlier instant, behind it by one mutation at
\* most.  Step by step: an operation leaves the file equal to the store; or
\* it changes the store that the file was equal to and leaves the file; or it
\* changes neither.
C30_SnapshotLag ==
    [][ \/ disk' = Serialize(feeds')
        \/ (disk = Serialize(feeds) /\ disk' = disk)
        \/ (feeds' = feeds /\ disk' = disk) ]_vars

----------------------------------------------------------------------------
(* Two sub commands at once (src/src/commands/sub.rs with one url as its   *)
(* argument).  The handler of each command is a task of its own; the store *)
(* is locked for one call at a time, and each action is the code of sub    *)
(* between two of its awaits.                                              *)

Other(i) == 3 - i

\* lines 15-57: the command has come; is_subscribed, then the first reply
SubStart(i, chat_id, feed_url) ==
    /\ handlers[i].stage = "idle"
    /\ LET subscribed == is_subscribed(DB, chat_id, feed_url)
           j == Other(i)
           races == /\ ~subscribed
                    /\ handlers[j].stage \in {"processing", "pulling"}
                    /\ handlers[j].target = chat_id
                    /\ handlers[j].url = feed_url
       IN  handlers' =
               [handlers EXCEPT
                   ![i] = [@ EXCEPT
                              !.target = chat_id,
                              !.url = feed_url,
                              !.stage = IF subscribed THEN "done" ELSE "processing",
                              !.replies = IF subscribed THEN <<"subscribed_to_rss">>
                                          ELSE <<"processing_please_wait">>,
                              !.raced = races,
                              !.ret = IF subscribed THEN "Ok" ELSE ""],
                   ![j] = [@ EXCEPT !.raced = @ \/ races]]
    /\ last' = [Call("sub") EXCEPT !.subscriber = chat_id, !.link = feed_url]
    /\ UNCHANGED <<feeds, subscribers, disk, workers, sent, ticks, split, scan, xml, http,
                   fmt, cmd, delivery, fix>>

\* lines 52-58: the send of "processing_please_wait" came back; pull_feed
SubProcessing(i, delivered) ==
    /\ handlers[i].stage = "processing"
    /\ handlers' = [handlers EXCEPT
                       ![i] = IF delivered
                              THEN [@ EXCEPT !.stage = "pulling"]
                              ELSE [@ EXCEPT !.stage = "done", !.ret = "MethodCall"]]
    /\ last' = [Call("update_response") EXCEPT
                   !.subscriber = handlers[i].target, !.link = handlers[i].url]
    /\ UNCHANGED <<feeds, subscribers, disk, workers, sent, ticks, split, scan, xml, http,
                   fmt, cmd, delivery, fix>>

\* lines 58-75: pull_feed came back; subscribe, then the last reply, whose
\* send changes nothing whether it fails or not
SubPulled(i, pulled) ==
    /\ handlers[i].stage = "pulling"
    /\ LET h == handlers[i]
           feed_id == get_hash(h.url)
       IN  IF pulled = None
           THEN /\ handlers' = [handlers EXCEPT
                                   ![i] = [@ EXCEPT
                                              !.stage = "done",
                                              !.replies = Append(@, "subscription_failed"),
                                              !.ret = "Ok"]]
                /\ UNCHANGED <<feeds, subscribers>>
           ELSE LET r == subscribe(DB, h.target, h.url, pulled[1], "ok")
                IN  /\ feeds' = r.db.feeds
                    /\ subscribers' = r.db.subscribers
                    /\ handlers' =
                           [handlers EXCEPT
                               ![i] = [@ EXCEPT
                                          !.stage = "done",
                                          !.pulled = TRUE,
                                          !.created = feed_id \notin DOMAIN feeds
                                                      /\ feed_id \in DOMAIN r.db.feeds,
                                          !.replies =
                                              Append(@, IF r.ret = "Ok"
                                                        THEN "subscription_succeeded"
                                                        ELSE "subscribed_to_rss"),
                                          !.ret = "Ok"]]
    /\ last' = [Call("pull_feed") EXCEPT
                   !.subscriber = handlers[i].target, !.link = handlers[i].url]
    /\ UNCHANGED <<disk, workers, sent, ticks, split, scan, xml, http, fmt, cmd, delivery,
                   fix>>

\* the feeds that the server of a link hands out
PulledFeeds == {None} \cup {Some(feed) : feed \in RSSOver(Titles, {}, 0)}

InitSubs ==
    /\ \E db \in StoresOfCommands :
          /\ feeds = db.feeds
          /\ subscribers = db.subscribers
    /\ last = Call("create")
    /\ disk = NotFollowed
    /\ workers = EmptyBag
    /\ sent = EmptyBag
    /\ ticks = 0
    /\ handlers = NoHandlers
    /\ fix = NoFix
    /\ delivery = NoDelivery
    /\ cmd = NoCommand
    /\ split = NoSplit
    /\ scan = None
    /\ xml = NoXml
    /\ http = NoRequest
    /\ fmt = NoFormat

NextSubs ==
    \/ \E i \in 1..2, chat_id \in Subscribers, feed_url \in Links :
          SubStart(i, chat_id, feed_url)
    \/ \E i \in 1..2, delivered \in BOOLEAN : SubProcessing(i, delivered)
    \/ \E i \in 1..2, pulled \in PulledFeeds : SubPulled(i, pulled)

SpecSubs == InitSubs /\ [][NextSubs]_vars

\* both commands are over, they were for one chat and one url, and each had
\* passed is_subscribed before the other one's pull_feed came back
RacedSubs ==
    /\ handlers[1].stage = "done" /\ handlers[2].stage = "done"
    /\ handlers[1].raced /\ handlers[2].raced
    /\ handlers[1].target = handlers[2].target
    /\ handlers[1].url = handlers[2].url

\* the handlers that replied msg
Replied(msg) == {i \in 1..2 : Contains(handlers[i].replies, msg)}

Pulled == {i \in 1..2 : handlers[i].pulled}

----------------------------------------------------------------------------
(* The file *)

\* subscribe or unsubscribe returned and changed one of the two maps
StoreMutated ==
    /\ last'.op \in {"subscribe", "unsubscribe"}
    /\ last'.ret # "Crash"
    /\ ~StoreUnchanged

\* C11 (reload round trip): after every subscribe or unsubscribe that changed
\* the store, Database::open on the file gives the feeds and the subscriber
\* index the process holds in memory.
C11_ReloadRoundTrip ==
    [][ StoreMutated => open(disk') = [ret |-> "Ok", db |-> DBNext] ]_vars

\* the part of C11 about the calls whose snapshot was written
C11_ReloadRoundTripOfWrittenSnapshot ==
    [][ (StoreMutated /\ last'.ios = <<"ok">>)
        => open(disk') = [ret |-> "Ok", db |-> DBNext] ]_vars

\* C12 (atomic snapshot replacement): when the process is killed at any point
\* of save, the file holds the complete snapshot it held before or the
\* complete new one, never an empty or partly written array.
C12_AtomicSnapshot ==
    [][ last'.ret = "Crash"
        => /\ disk'.kind = "json"
           /\ disk' = disk \/ disk' = Serialize(feeds') ]_vars

\* C13 (loader tolerance): Database::open on a file that holds a feed with
\* no subscribers gives a store without that feed, so that every feed of the
\* loaded store has a subscriber.
C13_LoaderDropsDeadFeeds ==
    [][ (last'.op = "open" /\ last'.ret = "Ok")
        => /\ \A feed \in disk.feeds :
                 feed.subscribers = {} => get_hash(feed.link) \notin DOMAIN feeds'
           /\ \A id \in DOMAIN feeds' : feeds'[id].subscribers # {} ]_vars

====
